---- MODULE Spec2Model ----
(***************************************************************************)
(* Verification model of the TOEFL quiz application:                       *)
(*   - services/geminiService.ts : generateQuiz, the generation            *)
(*     orchestrator (one metadata call, twelve concurrent question calls)  *)
(*   - App.tsx (score)           : the grading reduce                      *)
(*   - services/historyService.ts: the per-user history store              *)
(*   - App.tsx (App)             : the session, screens and handlers       *)
(*   - App.tsx with generateQuiz : the loading phase, progress callbacks   *)
(*   - App.tsx (QuizScreen)      : answering, paging and reviewing a quiz  *)
(* Each part has its own specification over the shared variable list.      *)
(***************************************************************************)
EXTENDS Integers, Sequences, FiniteSets, TLC

VARIABLES
    \* ---- generateQuiz (services/geminiService.ts) ----
    pc,               \* position of generateQuiz / state of the promise it returned
    article,          \* the article argument
    metadata,         \* result of generateQuizMetadata, NoValue before it resolves
    questionPromises, \* state of each promise of questionPromises
    resolvedValues,   \* value each fulfilled promise of questionPromises holds
    completedCount,   \* the shared completion counter
    emitted,          \* the sequence of arguments onProgress was called with
    generatedQuiz,    \* the value generateQuiz resolved with, NoValue otherwise
    thrown,           \* the error generateQuiz rejected with, NoValue otherwise
    requests,         \* how many service requests were issued, per call
    earlierRuns,      \* earlier invocations of generateQuiz with calls in flight
    \* ---- App (App.tsx): the quiz being taken ----
    quiz,             \* the questions of the quiz on screen
    userAnswers,      \* one slot per question: Null or a list of choice indices
    score,            \* the memoised score of userAnswers against quiz
    \* ---- history store (services/historyService.ts) ----
    appData,          \* the localStorage item under APP_DATA_KEY
    clock,            \* the last value Date.now() returned
    \* ---- App (App.tsx): the session ----
    appState,             \* the screen shown
    currentUserId,        \* NoUser when nobody is logged in
    lastUser,             \* the localStorage item under LAST_USER_KEY
    error,                \* NoValue or the message shown on the error screen
    appArticle,           \* the article state of App (the text in the input box)
    generationProgress,   \* NoValue or the progress shown while loading
    currentQuestionIndex, \* 0-based index of the question shown
    history,              \* the history list held in memory
    currentQuizContext,   \* historyGroupId of the quiz being taken, NullId if new
    selectedHistoryGroup, \* NoValue or the group opened for review
    selectedAttempt       \* NoValue or the attempt opened for review

genVars == <<pc, article, metadata, questionPromises, resolvedValues,
             completedCount, emitted, generatedQuiz, thrown, requests>>

runVars == <<earlierRuns>>

gradeVars == <<quiz, userAnswers, score>>

histVars == <<appData, clock>>

appVars == <<appState, currentUserId, lastUser, error, appArticle, generationProgress,
             currentQuestionIndex, history, currentQuizContext, selectedHistoryGroup,
             selectedAttempt>>

vars == <<genVars, runVars, gradeVars, histVars, appVars>>

NoValue == [none |-> TRUE]

\* localStorage.getItem returning null: nothing stored under the key
NoItem == [absent |-> TRUE]

\* null in a userAnswers slot, kept apart from every list of choice indices
\* (indices are 0-based naturals, so no selection equals it)
Null == <<-1>>

(***************************************************************************)
(* types.ts: enum QuestionType                                             *)
(***************************************************************************)
FactualInfo == "Factual Information"
Vocabulary == "Vocabulary-in-Context"
Inference == "Inference"
SentenceSimplification == "Sentence Simplification"
InsertText == "Insert Text"
ProseSummary == "Prose Summary"
NegativeFactualInfo == "Negative Factual Information"

QuestionType == {FactualInfo, Vocabulary, Inference, SentenceSimplification,
                 InsertText, ProseSummary, NegativeFactualInfo}

(***************************************************************************)
(* generateQuiz: the fixed plan and the progress constants                 *)
(***************************************************************************)
questionTypes ==
    <<FactualInfo, Vocabulary, Inference,
      FactualInfo, SentenceSimplification, NegativeFactualInfo,
      Vocabulary, Inference, InsertText,
      FactualInfo, Inference, ProseSummary>>

totalQuestions == Len(questionTypes)

basePercentage == 10

progressRange == 80

\* Percentages are kept exactly, in units of 1/totalQuestions of a percent:
\* the code's 10 + (completedCount / 12) * 80 is Scaled(10) + completedCount * 80.
Scaled(p) == p * totalQuestions

\* A variant driven by the number of calls still outstanding.
QuestionPercentageRemaining(count) ==
    Scaled(basePercentage) + (totalQuestions - count) * progressRange

\* A variant that computes the percentage before counting the completion.
QuestionPercentageBeforeCount(count) ==
    Scaled(basePercentage) + (count - 1) * progressRange

\* A variant whose question phase fills the bar up to 100 percent.
QuestionPercentageFullBar(count) ==
    Scaled(basePercentage) + count * (100 - basePercentage)

QuestionPercentage(count) == Scaled(basePercentage) + count * progressRange

Progress(label, ordinal, scaledPercentage) ==
    [stage |-> [label |-> label, ordinal |-> ordinal], percentage |-> scaledPercentage]

(***************************************************************************)
(* Bounds of the generation model                                          *)
(***************************************************************************)
\* How much the service may misbehave in one run: a failed question call
\* weighs 1, a response of another type than requested or with other choice
\* counts than requested weighs 2.
MaxFaults == 2

Articles == {"", "passage"}

\* generateQuiz never reads the article; faulty service behaviour is explored
\* for the non-empty article, the empty one only with a faultless service.
FaultBudget(a) == IF a = "" THEN 0 ELSE MaxFaults

MetadataResponses == {[title |-> "T", summaryIntroductorySentence |-> "S"]}

ErrorMessages == {"quota exceeded", "bad json"}

\* What the service may answer to the request for question n of type t: the
\* number it echoes may differ from n, the type may differ from t (the
\* response schema only demands a member of the enum) and the choices are
\* any array of {text, isCorrect} (the schema fixes no counts).
OffPlanType(t) == IF t = ProseSummary THEN FactualInfo ELSE ProseSummary

ChoicesOf(flags) == [k \in DOMAIN flags |-> [text |-> "choice", isCorrect |-> flags[k]]]

\* The choices of a response that suits the request: six with three correct
\* for a Prose Summary question (as the prompt asks), two with one correct
\* otherwise; and six choices of which only two are marked correct.
ProseSummaryChoices == ChoicesOf(<<FALSE, TRUE, FALSE, TRUE, TRUE, FALSE>>)

SingleAnswerChoices == ChoicesOf(<<FALSE, TRUE>>)

MiscountedChoices == ChoicesOf(<<FALSE, TRUE, FALSE, TRUE, FALSE, FALSE>>)

RequestedChoices(t) ==
    IF t = ProseSummary THEN ProseSummaryChoices ELSE SingleAnswerChoices

\* Other counts are explored for the Prose Summary request.
ChoicesResponses(t) ==
    {RequestedChoices(t)}
    \cup (IF t = ProseSummary
          THEN {MiscountedChoices}
          ELSE {})

QuestionResponses(n, t) ==
    [questionNumber : {n, (n % totalQuestions) + 1},
     questionType : {t, OffPlanType(t)},
     choices : ChoicesResponses(t)]

\* The response that follows the request for question n.
FaithfulResponse(n) ==
    [questionNumber |-> n,
     questionType |-> questionTypes[n],
     choices |-> RequestedChoices(questionTypes[n])]

(***************************************************************************)
(* generateQuestion: the parsed response with questionNumber overwritten   *)
(***************************************************************************)
generateQuestionEchoed(a, questionNumber, questionType, response) == response

generateQuestion(a, questionNumber, questionType, response) ==
    [response EXCEPT !.questionNumber = questionNumber]

(***************************************************************************)
(* Array.prototype.sort with the comparator of generateQuiz: a stable sort, *)
(* b placed before a exactly when compare(a, b) > 0                        *)
(***************************************************************************)
compareDescending(a, b) == b.questionNumber - a.questionNumber

compare(a, b) == a.questionNumber - b.questionNumber

\* Whether the element at position j of qs stands before the one at position
\* k in the sorted array: elements keep their order unless the comparator
\* says that the later one goes first.
Precedes(qs, j, k) ==
    IF j < k THEN ~(compare(qs[j], qs[k]) > 0) ELSE compare(qs[k], qs[j]) > 0

\* The position in the sorted array of the element at position k of qs.
Rank(qs, k) == 1 + Cardinality({j \in DOMAIN qs \ {k} : Precedes(qs, j, k)})

Sort(qs) ==
    [p \in DOMAIN qs |-> qs[CHOOSE k \in DOMAIN qs : Rank(qs, k) = p]]

(***************************************************************************)
(* Promise.all over questionPromises                                       *)
(***************************************************************************)
Indices == 1..totalQuestions

Pending(promises) == {i \in Indices : promises[i] = "pending"}

Fulfilled(promises) == {i \in Indices : promises[i] = "fulfilled"}

Rejected(promises) == {i \in Indices : promises[i] = "rejected"}

\* A variant that waits for every promise and then keeps the fulfilled ones.
PromiseAllKeepFulfilled(promises) ==
    IF Pending(promises) # {} THEN "pending" ELSE "fulfilled"

\* A variant that settles with the first promise that fulfils (a race).
PromiseRace(promises) ==
    IF Rejected(promises) # {} THEN "rejected"
    ELSE IF Fulfilled(promises) # {} THEN "fulfilled"
    ELSE "pending"

\* A variant that never rejects: it waits until every promise has fulfilled.
PromiseAllNeverRejects(promises) ==
    IF Fulfilled(promises) = Indices THEN "fulfilled" ELSE "pending"

\* Promise.all rejects as soon as one input rejects and fulfils when all have.
PromiseAll(promises) ==
    IF Rejected(promises) # {} THEN "rejected"
    ELSE IF Pending(promises) # {} THEN "pending"
    ELSE "fulfilled"

\* The values Promise.all fulfils with: those of the promises, in array order.
RECURSIVE ValuesUpTo(_, _, _)
ValuesUpTo(promises, values, n) ==
    IF n = 0 THEN <<>>
    ELSE IF promises[n] = "fulfilled"
         THEN Append(ValuesUpTo(promises, values, n - 1), values[n])
         ELSE ValuesUpTo(promises, values, n - 1)

resolvedQuestions(promises, values) == ValuesUpTo(promises, values, totalQuestions)

\* The catch block of generateQuiz: the service error wrapped in a new Error.
WrapError(message) ==
    [message |-> <<"Failed to generate quiz from the article. Gemini API error: ", message>>]

\* The code after await Promise.all: two more emissions around the assembly.
AssembledQuiz(m, promises, values) ==
    [title |-> m.title,
     summaryIntroductorySentence |-> m.summaryIntroductorySentence,
     questions |-> Sort(resolvedQuestions(promises, values))]

\* A response of another type or with other choices than requested.
Faulty(i, response) ==
    \/ response.questionType # questionTypes[i]
    \/ response.choices # RequestedChoices(questionTypes[i])

Faults(promises, values) ==
    Cardinality(Rejected(promises))
    + 2 * Cardinality({i \in Fulfilled(promises) : Faulty(i, values[i])})

(***************************************************************************)
(* generateQuiz                                                            *)
(***************************************************************************)
InitGen ==
    /\ pc = "idle"
    /\ article = ""
    /\ metadata = NoValue
    /\ questionPromises = [i \in Indices |-> "unissued"]
    /\ resolvedValues = [i \in Indices |-> NoValue]
    /\ completedCount = 0
    /\ emitted = <<>>
    /\ generatedQuiz = NoValue
    /\ thrown = NoValue
    /\ requests = [metadata |-> 0, questions |-> [i \in Indices |-> 0]]
    /\ earlierRuns = <<>>

\* A variant of the call that issues the question requests without waiting
\* for the metadata.
CallGenerateQuizEager(a) ==
    /\ pc = "idle"
    /\ article' = a
    /\ emitted' = <<Progress("Analyzing Article & Generating Title...", 0, Scaled(0))>>
    /\ pc' = "awaitMetadata"
    /\ questionPromises' = [i \in Indices |-> "pending"]
    /\ requests' = [metadata |-> 1, questions |-> [i \in Indices |-> 1]]
    /\ UNCHANGED <<metadata, resolvedValues, completedCount, generatedQuiz, thrown>>

\* generateQuiz is called: the first emission, then the metadata request.
CallGenerateQuiz(a) ==
    /\ pc = "idle"
    /\ article' = a
    /\ emitted' = <<Progress("Analyzing Article & Generating Title...", 0, Scaled(0))>>
    /\ pc' = "awaitMetadata"
    /\ requests' = [requests EXCEPT !.metadata = @ + 1]
    /\ UNCHANGED <<metadata, questionPromises, resolvedValues, completedCount, generatedQuiz, thrown>>

\* The metadata call resolves: two emissions, then all question calls are issued.
MetadataResolves(m) ==
    /\ pc = "awaitMetadata"
    /\ metadata' = m
    /\ emitted' = emitted \o
          <<Progress("Analyzing Article & Generating Title...", 0, Scaled(basePercentage)),
            Progress("Generating Question", 1, Scaled(basePercentage))>>
    /\ questionPromises' = [i \in Indices |-> "pending"]
    /\ requests' = [requests EXCEPT !.questions = [i \in Indices |-> @[i] + 1]]
    /\ pc' = "awaitQuestions"
    /\ UNCHANGED <<article, resolvedValues, completedCount, generatedQuiz, thrown>>

\* The metadata call fails (service error or unparsable text): the catch block.
MetadataRejects(message) ==
    /\ pc = "awaitMetadata"
    /\ thrown' = WrapError(message)
    /\ pc' = "rejected"
    /\ UNCHANGED <<article, metadata, questionPromises, resolvedValues,
                   completedCount, emitted, generatedQuiz, requests>>

\* Question call i resolves: its then-callback runs whatever generateQuiz has
\* done meanwhile; if this fulfils Promise.all, generateQuiz runs to its return.
QuestionResolves(i, response) ==
    LET question == generateQuestion(article, i, questionTypes[i], response)
        promises == [questionPromises EXCEPT ![i] = "fulfilled"]
        values == [resolvedValues EXCEPT ![i] = question]
        count == completedCount + 1
        log == Append(emitted,
                      Progress("Generating Question", count + 1, QuestionPercentage(count)))
    IN  /\ questionPromises[i] = "pending"
        /\ Faulty(i, response) => Faults(promises, values) <= FaultBudget(article)
        /\ questionPromises' = promises
        /\ resolvedValues' = values
        /\ completedCount' = count
        /\ IF pc = "awaitQuestions" /\ PromiseAll(promises) = "fulfilled"
           THEN /\ emitted' = log \o
                      <<Progress("Assembling Quiz...", 0, Scaled(95)),
                        Progress("Done!", 0, Scaled(100))>>
                /\ generatedQuiz' = AssembledQuiz(metadata, promises, values)
                /\ pc' = "resolved"
           ELSE /\ emitted' = log
                /\ UNCHANGED <<generatedQuiz, pc>>
        /\ UNCHANGED <<article, metadata, thrown, requests>>

\* A variant in which a failed question call is requested once more.
QuestionRejectsRetried(i, message) ==
    /\ questionPromises[i] = "pending"
    /\ requests.questions[i] = 1
    /\ requests' = [requests EXCEPT !.questions[i] = @ + 1]
    /\ UNCHANGED <<pc, article, metadata, questionPromises, resolvedValues,
                   completedCount, emitted, generatedQuiz, thrown>>

\* A variant in which every failing question call replaces the error.
QuestionRejectsOverwriting(i, message) ==
    /\ questionPromises[i] = "pending"
    /\ Faults([questionPromises EXCEPT ![i] = "rejected"], resolvedValues) <= FaultBudget(article)
    /\ questionPromises' = [questionPromises EXCEPT ![i] = "rejected"]
    /\ thrown' = WrapError(message)
    /\ pc' = "rejected"
    /\ UNCHANGED <<article, metadata, resolvedValues, completedCount, emitted,
                   generatedQuiz, requests>>

\* Question call i fails: Promise.all rejects with the first failure and the
\* catch block rethrows; later failures find generateQuiz already settled.
QuestionRejects(i, message) ==
    LET promises == [questionPromises EXCEPT ![i] = "rejected"]
    IN  /\ questionPromises[i] = "pending"
        /\ Faults(promises, resolvedValues) <= FaultBudget(article)
        /\ questionPromises' = promises
        /\ IF pc = "awaitQuestions" /\ PromiseAll(promises) = "rejected"
           THEN /\ thrown' = WrapError(message)
                /\ pc' = "rejected"
                /\ UNCHANGED <<emitted, generatedQuiz>>
           ELSE IF pc = "awaitQuestions" /\ PromiseAll(promises) = "fulfilled"
           THEN /\ emitted' = emitted \o
                      <<Progress("Assembling Quiz...", 0, Scaled(95)),
                        Progress("Done!", 0, Scaled(100))>>
                /\ generatedQuiz' = AssembledQuiz(metadata, promises, resolvedValues)
                /\ pc' = "resolved"
                /\ UNCHANGED thrown
           ELSE UNCHANGED <<pc, thrown, emitted, generatedQuiz>>
        /\ UNCHANGED <<article, metadata, resolvedValues, completedCount, requests>>

\* null for currentUserId and for the last-user item; handleLogin never stores
\* the empty string, and `!currentUserId` treats both alike
NoUser == ""

\* App.tsx, useState initial values: no quiz on screen
NoQuizOnScreen ==
    /\ quiz = NoValue
    /\ userAnswers = <<>>
    /\ score = 0

\* App.tsx, useState initial values of the session, with no last user stored:
\* the mount effect shows the login screen.
LoggedOut ==
    /\ appState = "login"
    /\ currentUserId = NoUser
    /\ lastUser = NoUser
    /\ error = NoValue
    /\ appArticle = ""
    /\ generationProgress = NoValue
    /\ currentQuestionIndex = 0
    /\ history = <<>>
    /\ currentQuizContext = [ms |-> -1, suffix |-> "null"]  \* historyGroupId: null
    /\ selectedHistoryGroup = NoValue
    /\ selectedAttempt = NoValue

\* An installation that never stored anything
EmptyStorage ==
    /\ appData = NoItem
    /\ clock = 0

Init == InitGen /\ NoQuizOnScreen /\ EmptyStorage /\ LoggedOut

NextGen ==
    \/ \E a \in Articles : CallGenerateQuiz(a) /\ UNCHANGED <<runVars, gradeVars, histVars, appVars>>
    \/ \E m \in MetadataResponses : MetadataResolves(m) /\ UNCHANGED <<runVars, gradeVars, histVars, appVars>>
    \/ \E message \in ErrorMessages : MetadataRejects(message) /\ UNCHANGED <<runVars, gradeVars, histVars, appVars>>
    \/ \E i \in Indices : \E response \in QuestionResponses(i, questionTypes[i]) :
          QuestionResolves(i, response) /\ UNCHANGED <<runVars, gradeVars, histVars, appVars>>
    \/ \E i \in Indices : \E message \in ErrorMessages :
          QuestionRejects(i, message) /\ UNCHANGED <<runVars, gradeVars, histVars, appVars>>

Spec == Init /\ [][NextGen]_vars

\* The calls that fail in the runs of the fair specification; every other
\* call is answered faithfully.
FailingCalls == {1, totalQuestions}

LiveErrorMessages == {"quota exceeded"}

\* The service answers a call that is in flight (with a result or an error).
ServiceResponds ==
    /\ \/ \E m \in MetadataResponses : MetadataResolves(m)
       \/ \E message \in LiveErrorMessages : MetadataRejects(message)
       \/ \E i \in Indices : QuestionResolves(i, FaithfulResponse(i))
       \/ \E i \in FailingCalls : \E message \in LiveErrorMessages :
             QuestionRejects(i, message)
    /\ UNCHANGED <<runVars, gradeVars, histVars, appVars>>

NextLive ==
    \/ CallGenerateQuiz("passage") /\ UNCHANGED <<runVars, gradeVars, histVars, appVars>>
    \/ ServiceResponds

\* generateQuiz with a service that eventually answers every call in flight;
\* the continuations of generateQuiz are microtasks of the step that settles
\* the promise they wait for, so nothing else needs scheduling.
SpecLive == Init /\ [][NextLive]_vars /\ WF_vars(ServiceResponds)

(***************************************************************************)
(* Properties of generateQuiz                                              *)
(***************************************************************************)
Settled == pc \in {"resolved", "rejected"}

\* C1: the quiz a successful run returns has exactly 12 questions whose
\* questionNumber values read 1, 2, ..., 12 in array order, whatever the order
\* in which the question calls completed.
C1_QuestionsNumberedInOrder ==
    pc = "resolved" =>
        /\ Len(generatedQuiz.questions) = totalQuestions
        /\ \A k \in 1..Len(generatedQuiz.questions) : generatedQuiz.questions[k].questionNumber = k

C1_Witness ==
    /\ pc = "resolved"
    /\ Len(generatedQuiz.questions) = totalQuestions
    /\ generatedQuiz.questions[totalQuestions].questionNumber = totalQuestions

\* C2: in the quiz a successful run returns, the question at position k has
\* the k-th type of the fixed plan, whatever the service responded.
C2_TypesFollowPlan ==
    pc = "resolved" =>
        \A k \in 1..Len(generatedQuiz.questions) : generatedQuiz.questions[k].questionType = questionTypes[k]

\* C3: the percentages passed to onProgress never decrease, and a successful
\* run ends with the emission of exactly 100.
C3_ProgressMonotoneEndsAt100 ==
    /\ \A j, k \in 1..Len(emitted) :
          j < k => emitted[j].percentage <= emitted[k].percentage
    /\ pc = "resolved" => emitted[Len(emitted)].percentage = Scaled(100)

C3_Witness ==
    /\ pc = "resolved"
    /\ completedCount = totalQuestions
    /\ emitted[Len(emitted)].percentage = Scaled(100)
    /\ emitted[1].percentage = 0

\* C4: once a question call has failed, generateQuiz has rejected: it holds
\* an error and no quiz, complete or partial.
C4_FailureRejects ==
    Rejected(questionPromises) # {} =>
        /\ pc = "rejected"
        /\ generatedQuiz = NoValue
        /\ thrown # NoValue

C4_Witness ==
    /\ Rejected(questionPromises) = {9}
    /\ Fulfilled(questionPromises) = Indices \ {9}
    /\ pc = "rejected"

\* C5: onProgress is never invoked after generateQuiz has settled.
C5_NoProgressAfterSettled == [][Settled => emitted' = emitted]_vars

\* C6 as claimed: generateQuiz has settled only when no question call is
\* still in flight.
C6_SettledOnlyAfterAllSettled == Settled => Pending(questionPromises) = {}

\* C6 as amended: generateQuiz resolves only after all twelve question calls
\* have fulfilled (it may reject while calls are still in flight).
C6_ResolvedOnlyAfterAllFulfilled ==
    pc = "resolved" => Fulfilled(questionPromises) = Indices

C6_Witness ==
    /\ pc = "resolved"
    /\ Fulfilled(questionPromises) = Indices
    /\ generatedQuiz # NoValue

\* C16: the question a question call returns carries the requested number,
\* whatever questionNumber the service response carried.
C16_QuestionNumberForced ==
    \A i \in Fulfilled(questionPromises) : resolvedValues[i].questionNumber = i

\* The last call has returned what generateQuestion makes of a response that
\* carried another number than 12.
C16_Witness ==
    /\ totalQuestions \in Fulfilled(questionPromises)
    /\ \E response \in QuestionResponses(totalQuestions, questionTypes[totalQuestions]) :
          /\ response.questionNumber # totalQuestions
          /\ resolvedValues[totalQuestions] =
                generateQuestion(article, totalQuestions, questionTypes[totalQuestions], response)

QuestionsIssued == {i \in Indices : requests.questions[i] > 0}

\* C17: no question request is issued before the metadata call has completed
\* successfully; when the metadata call fails no question request is issued
\* and generateQuiz rejects having emitted only the progress of percentage 0.
C17_QuestionsAfterMetadata ==
    /\ (QuestionsIssued # {} \/ \E i \in Indices : questionPromises[i] # "unissued")
          => metadata # NoValue
    /\ (pc = "rejected" /\ metadata = NoValue) =>
          /\ QuestionsIssued = {}
          /\ Len(emitted) = 1
          /\ emitted[1].percentage = 0

C17_Witness ==
    /\ pc = "rejected"
    /\ metadata = NoValue
    /\ requests.metadata = 1
    /\ thrown # NoValue

\* The emissions that precede the first completion: 0, 10 and 10.
EmissionsBeforeQuestions == 3

\* C18: the completion counter counts exactly the question calls that
\* completed successfully, and the emission of the k-th completion carries
\* 10 + (k/12)*80, whichever call it was; the 12th carries 90.
C18_CounterAndPercentagePerCompletion ==
    /\ completedCount = Cardinality(Fulfilled(questionPromises))
    /\ \A k \in 1..completedCount :
          /\ totalQuestions * 10 + k * 80 = emitted[EmissionsBeforeQuestions + k].percentage
          /\ k = 12 => emitted[EmissionsBeforeQuestions + k].percentage = Scaled(90)

\* One call failed and the eleven others completed, after the failure too.
C18_Witness ==
    /\ Cardinality(Rejected(questionPromises)) = 1
    /\ completedCount = totalQuestions - 1
    /\ emitted[Len(emitted)].percentage = Scaled(10) + 11 * 80

\* C19: a run issues one metadata request and one request per question
\* number, never a second one after a failure, and the 12 question requests
\* are all issued before any of them completes.
C19_OneRequestPerCall ==
    /\ requests.metadata = (IF pc = "idle" THEN 0 ELSE 1)
    /\ \A i \in Indices : requests.questions[i] <= 1
    /\ QuestionsIssued \in {{}, Indices}
    /\ metadata # NoValue => QuestionsIssued = Indices
    /\ \A i \in Indices :
          questionPromises[i] \in {"fulfilled", "rejected"} => QuestionsIssued = Indices

\* A call has failed and the run has rejected, with every request issued once.
C19_Witness ==
    /\ pc = "rejected"
    /\ Rejected(questionPromises) # {}
    /\ Pending(questionPromises) = {}
    /\ \A i \in Indices : requests.questions[i] = 1

MessageParts(e) == {e.message[k] : k \in DOMAIN e.message}

\* C21: when a question call fails, the error generateQuiz rejects with
\* identifies the failed call: its message holds the question number and the
\* question type of a call that failed.
C21_FailureNamesQuestion ==
    (pc = "rejected" /\ Rejected(questionPromises) # {}) =>
        \E i \in Rejected(questionPromises) :
            /\ ToString(i) \in MessageParts(thrown)
            /\ questionTypes[i] \in MessageParts(thrown)

CorrectCount(question) ==
    Cardinality({k \in DOMAIN question.choices : question.choices[k].isCorrect})

\* C22: every question of a quiz a successful generateQuiz returns has the
\* choice counts of its type, six choices with exactly three correct for a
\* Prose Summary question and at least two choices with exactly one correct
\* otherwise; a response with other counts makes the generation fail.
C22_ChoiceCountsEnforced ==
    pc = "resolved" =>
        \A k \in DOMAIN generatedQuiz.questions :
            LET question == generatedQuiz.questions[k]
            IN  IF question.questionType = ProseSummary
                THEN Len(question.choices) = 6 /\ CorrectCount(question) = 3
                ELSE Len(question.choices) >= 2 /\ CorrectCount(question) = 1

\* C27: a question call that was launched stays in flight until it fulfils or
\* rejects and keeps that outcome (nothing cancels it, also after another call
\* has failed and generateQuiz has rejected); with a service that eventually
\* answers every call, all launched calls settle and generateQuiz settles,
\* and it settles once: its outcome never changes afterwards.
C27_CallsRunToCompletion ==
    /\ [][\A i \in Indices :
            /\ questionPromises[i] = "pending"
                  => questionPromises'[i] \in {"pending", "fulfilled", "rejected"}
            /\ questionPromises[i] \in {"fulfilled", "rejected"}
                  => questionPromises'[i] = questionPromises[i]]_vars
    /\ [][Settled => (pc' = pc /\ generatedQuiz' = generatedQuiz /\ thrown' = thrown)]_vars
    /\ <>[](pc = "idle" \/ (Settled /\ Pending(questionPromises) = {}))

\* generateQuiz has rejected after one failed call and the other eleven calls
\* have run to their completion afterwards.
C27_Witness ==
    /\ pc = "rejected"
    /\ Cardinality(Rejected(questionPromises)) = 1
    /\ Pending(questionPromises) = {}
    /\ completedCount = totalQuestions - 1

\* C23: generateQuiz called with an empty passage rejects and returns no quiz.
C23_EmptyArticleRejected ==
    (article = "" /\ Settled) => (pc = "rejected" /\ generatedQuiz = NoValue)

\* C28: every emission whose stage reads "Generating Question j of 12..."
\* has 1 <= j <= 12.
C28_StageOrdinalInRange ==
    \A k \in DOMAIN emitted :
        emitted[k].stage.label = "Generating Question" =>
            emitted[k].stage.ordinal \in 1..totalQuestions

\* C31: in a run of generateQuiz that rejects, every percentage passed to
\* onProgress lies between 0 and 90, and neither 'Assembling Quiz...' (95)
\* nor 'Done!' (100) is ever emitted, the emissions of calls that complete
\* after the rejection included.
C31_RejectedRunStaysBelowAssembly ==
    pc = "rejected" =>
        \A k \in 1..Len(emitted) :
            /\ emitted[k].percentage >= Scaled(0)
            /\ emitted[k].percentage <= Scaled(90)
            /\ emitted[k].stage.label \notin {"Assembling Quiz...", "Done!"}

C31_Witness ==
    /\ pc = "rejected"
    /\ completedCount = totalQuestions - 1
    /\ Len(emitted) = totalQuestions + 2
    /\ emitted[Len(emitted)].percentage = QuestionPercentage(totalQuestions - 1)

(***************************************************************************)
(* Grading: the score memo of App.tsx                                      *)
(***************************************************************************)
SetOf(list) == {list[k] : k \in DOMAIN list}

\* question.choices.map((c, i) => c.isCorrect ? i : -1).filter(i => i !== -1):
\* the 0-based indices of the correct choices, ascending
RECURSIVE CorrectUpTo(_, _)
CorrectUpTo(choices, n) ==
    IF n = 0 THEN <<>>
    ELSE IF choices[n].isCorrect
         THEN Append(CorrectUpTo(choices, n - 1), n - 1)
         ELSE CorrectUpTo(choices, n - 1)

correctChoiceIndices(question) == CorrectUpTo(question.choices, Len(question.choices))

\* A variant that compares the answer with the correct indices as lists.
scoreReducerPositional(acc, question, userAnswerIndices) ==
    IF userAnswerIndices = Null THEN acc
    ELSE IF userAnswerIndices = correctChoiceIndices(question) THEN acc + 1
    ELSE acc

\* A variant without the size comparison: every selected index is correct.
scoreReducerSubset(acc, question, userAnswerIndices) ==
    IF userAnswerIndices = Null THEN acc
    ELSE IF Len(correctChoiceIndices(question)) = 0 THEN acc
    ELSE IF SetOf(userAnswerIndices) \subseteq SetOf(correctChoiceIndices(question))
         THEN acc + 1
         ELSE acc

\* A variant without the early return for a question without correct choice.
scoreReducerUnguarded(acc, question, userAnswerIndices) ==
    IF userAnswerIndices = Null THEN acc
    ELSE IF /\ Cardinality(SetOf(userAnswerIndices)) = Len(correctChoiceIndices(question))
            /\ SetOf(userAnswerIndices) \subseteq SetOf(correctChoiceIndices(question))
         THEN acc + 1
         ELSE acc

\* The callback of quiz.questions.reduce; an empty list is not falsy, so only
\* null (or a missing slot) takes the first return.
scoreReducer(acc, question, userAnswerIndices) ==
    IF userAnswerIndices = Null THEN acc
    ELSE IF Len(correctChoiceIndices(question)) = 0 THEN acc
    ELSE LET userAnswerSet == SetOf(userAnswerIndices)
             correctChoicesSet == SetOf(correctChoiceIndices(question))
         IN  IF /\ Cardinality(userAnswerSet) = Cardinality(correctChoicesSet)
                /\ \A val \in userAnswerSet : val \in correctChoicesSet
             THEN acc + 1
             ELSE acc

SlotAt(answers, n) == IF n \in DOMAIN answers THEN answers[n] ELSE Null

RECURSIVE ReduceUpTo(_, _, _)
ReduceUpTo(questions, answers, n) ==
    IF n = 0 THEN 0
    ELSE scoreReducer(ReduceUpTo(questions, answers, n - 1), questions[n], SlotAt(answers, n))

Score(questions, answers) == ReduceUpTo(questions, answers, Len(questions))

\* AnalysisReportScreen: the predicate computed per question; it has no early
\* return for a question without correct choice.
isCorrect(question, userAnswerIndices) ==
    /\ userAnswerIndices # Null
    /\ Cardinality(SetOf(userAnswerIndices))
          = Cardinality(SetOf(correctChoiceIndices(question)))
    /\ \A k \in DOMAIN userAnswerIndices :
          userAnswerIndices[k] \in SetOf(correctChoiceIndices(question))

\* The positions the report lists: .filter(item => !item.isCorrect)
incorrectAnswers(questions, answers) ==
    SelectSeq([n \in DOMAIN questions |-> n],
              LAMBDA n : ~isCorrect(questions[n], SlotAt(answers, n)))

(***************************************************************************)
(* Bounds of the grading model: the quizzes graded and the answers tried   *)
(***************************************************************************)
\* The longest list of indices tried in one answer slot.
MaxSelected == 4

GradedQuestion(type, flags) == [questionType |-> type, choices |-> ChoicesOf(flags)]

\* Six choices of which 1, 3 and 4 are correct.
ProseQuestion == GradedQuestion(ProseSummary, <<FALSE, TRUE, FALSE, TRUE, TRUE, FALSE>>)

SingleQuestion(type) == GradedQuestion(type, <<FALSE, FALSE, TRUE, FALSE>>)

\* A question the service returned without any correct choice.
NoCorrectQuestion == GradedQuestion(Inference, <<FALSE, FALSE>>)

\* A Prose Summary question the service returned without any correct choice.
NoCorrectSummary == GradedQuestion(ProseSummary, <<FALSE, FALSE>>)

PlanQuiz ==
    [n \in Indices |->
        IF questionTypes[n] = ProseSummary THEN ProseQuestion
        ELSE SingleQuestion(questionTypes[n])]

GradedQuizzes ==
    {<<ProseQuestion>>, <<SingleQuestion(Vocabulary)>>, <<NoCorrectQuestion>>,
     <<NoCorrectSummary>>,
     <<SingleQuestion(Vocabulary), NoCorrectQuestion>>, PlanQuiz}

ChoiceIndices(question) == 0..(Len(question.choices) - 1)

ListsUpTo(S, n) == UNION {[1..m -> S] : m \in 0..n}

LongQuizSlots(question) ==
    LET correct == correctChoiceIndices(question)
    IN  {Null, correct}
        \cup (IF Len(correct) > 1 THEN {SubSeq(correct, 1, Len(correct) - 1)} ELSE {})

\* A quiz of a single question is answered with every list of choice indices
\* up to MaxSelected, a longer one with the selections of LongQuizSlots.
AnswerSlots(questions, n) ==
    IF Len(questions) = 1
    THEN {Null} \cup ListsUpTo(ChoiceIndices(questions[n]), MaxSelected)
    ELSE LongQuizSlots(questions[n])

\* A quiz is put on screen with every slot null (new Array(n).fill(null)).
InitGrade ==
    /\ quiz \in GradedQuizzes
    /\ userAnswers = [n \in DOMAIN quiz |-> Null]
    /\ score = Score(quiz, userAnswers)

\* A slot that is still null is filled and the memo is recomputed.
SetUserAnswer(n, slot) ==
    /\ userAnswers[n] = Null
    /\ slot # Null
    /\ userAnswers' = [userAnswers EXCEPT ![n] = slot]
    /\ score' = Score(quiz, userAnswers')
    /\ UNCHANGED quiz

NextGrade ==
    \E n \in DOMAIN quiz : \E slot \in AnswerSlots(quiz, n) :
        SetUserAnswer(n, slot) /\ UNCHANGED <<genVars, runVars, histVars, appVars>>

InitGraded == InitGen /\ InitGrade /\ EmptyStorage /\ LoggedOut

SpecGrade == InitGraded /\ [][NextGrade]_vars

(***************************************************************************)
(* Properties of the grading                                               *)
(***************************************************************************)
CorrectSet(question) ==
    {i \in ChoiceIndices(question) : question.choices[i + 1].isCorrect}

\* Whether the question at position n added 1 to the score.
Counted(n) == scoreReducer(0, quiz[n], userAnswers[n]) = 1

ExactMatch(n) ==
    /\ userAnswers[n] # Null
    /\ SetOf(userAnswers[n]) = CorrectSet(quiz[n])

\* C7 as claimed: a question counts if and only if its slot is non-null and
\* the set of selected indices equals the set of indices of correct choices;
\* the score is the number of such questions.
C7_ScoreCountsExactMatches ==
    /\ \A n \in DOMAIN quiz : Counted(n) <=> ExactMatch(n)
    /\ score = Cardinality({n \in DOMAIN quiz : ExactMatch(n)})

\* C7 as amended: a question counts if and only if its slot is non-null, the
\* question has at least one correct choice and the set of selected indices
\* equals the set of indices of correct choices (a proper subset or superset
\* is wrong); the score is the number of such questions, so null slots add 0
\* and a 12-question quiz with 3 such answers and 9 null slots scores 3.
C7_ScoreCountsExactMatchesOfGradable ==
    LET Gradable(n) == ExactMatch(n) /\ CorrectSet(quiz[n]) # {}
        nulls == {n \in DOMAIN quiz : userAnswers[n] = Null}
    IN  /\ \A n \in DOMAIN quiz : Counted(n) <=> Gradable(n)
        /\ score = Cardinality({n \in DOMAIN quiz : Gradable(n)})
        /\ \A n \in nulls : ~Counted(n)
        /\ (/\ Len(quiz) = 12
            /\ Cardinality(nulls) = 9
            /\ \A n \in DOMAIN quiz \ nulls : Gradable(n)) => score = 3

C7_Witness ==
    /\ Len(quiz) = 12
    /\ Cardinality({n \in DOMAIN quiz : userAnswers[n] = Null}) = 9
    /\ \A n \in DOMAIN quiz : userAnswers[n] # Null => ExactMatch(n)
    /\ score = 3

Reorderings(list) ==
    LET D == DOMAIN list
    IN  {[k \in D |-> list[f[k]]] : f \in {g \in [D -> D] : \A a, b \in D : g[a] = g[b] => a = b}}

\* C8: listing the selected indices of a slot in another order changes neither
\* the result for that question nor the score; with correct set {1,3,4} the
\* selections [4,1,3] and [1,3,4] count and [1,3] and [1,3,4,5] do not.
C8_SelectionOrderIrrelevant ==
    \A n \in DOMAIN quiz :
        /\ userAnswers[n] # Null =>
              \A p \in Reorderings(userAnswers[n]) :
                  /\ scoreReducer(0, quiz[n], p) = scoreReducer(0, quiz[n], userAnswers[n])
                  /\ Score(quiz, [userAnswers EXCEPT ![n] = p]) = score
        /\ CorrectSet(quiz[n]) = {1, 3, 4} =>
              /\ userAnswers[n] \in {<<4, 1, 3>>, <<1, 3, 4>>} => Counted(n)
              /\ userAnswers[n] \in {<<1, 3>>, <<1, 3, 4, 5>>} => ~Counted(n)

C8_Witness ==
    /\ quiz = <<ProseQuestion>>
    /\ userAnswers = << <<4, 1, 3>> >>
    /\ score = 1

\* C25: a question none of whose choices is correct never contributes to the
\* score: the reducer returns the accumulator unchanged for every answer slot,
\* null and the empty selection included, and the score counts only the
\* other questions.
C25_NoCorrectChoiceNeverCounts ==
    \A n \in DOMAIN quiz :
        CorrectSet(quiz[n]) = {} =>
            /\ ~Counted(n)
            /\ \A slot \in {Null} \cup ListsUpTo(ChoiceIndices(quiz[n]), MaxSelected) :
                  \A acc \in 0..Len(quiz) : scoreReducer(acc, quiz[n], slot) = acc
            /\ score = Cardinality({m \in DOMAIN quiz \ {n} : Counted(m)})

\* The empty selection on a question without correct choice, next to a
\* question that was answered correctly.
C25_Witness ==
    /\ quiz = <<SingleQuestion(Vocabulary), NoCorrectQuestion>>
    /\ userAnswers = << <<2>>, <<>> >>
    /\ score = 1

\* C34: the Analysis Report lists a question as incorrect if and only if the
\* question did not contribute to the score, so the number of questions the
\* report does not list equals the score, for every quiz and answer array.
C34_ReportAgreesWithScore ==
    LET listed == SetOf(incorrectAnswers(quiz, userAnswers))
    IN  /\ \A n \in DOMAIN quiz : n \in listed <=> ~Counted(n)
        /\ Len(quiz) - Len(incorrectAnswers(quiz, userAnswers)) = score

(***************************************************************************)
(* History store: services/historyService.ts over localStorage             *)
(***************************************************************************)
\* Bounds: the largest value Date.now() returns and the number of attempts
\* stored in the whole installation.
MaxClock == 2

MaxAttempts == 3

Users == {"u1", "u2"}

\* What handleFinishQuiz may pass as newAttemptData (without historyGroupId).
Submissions ==
    {[article |-> "a1",
      quiz |-> [title |-> "T1", summaryIntroductorySentence |-> "S1",
                questions |-> <<SingleQuestion(Vocabulary)>>],
      userAnswers |-> <<Null>>, score |-> 0],
     [article |-> "a2",
      quiz |-> [title |-> "T2", summaryIntroductorySentence |-> "S2",
                questions |-> <<SingleQuestion(Inference)>>],
      userAnswers |-> << <<2>> >>, score |-> 1]}

\* `${Date.now()}` and `${Date.now()}-group`: the decimal digits of the time,
\* then the suffix; null is the only other historyGroupId the application passes.
AttemptId(ms) == [ms |-> ms, suffix |-> ""]

GroupId(ms) == [ms |-> ms, suffix |-> "-group"]

NullId == [ms |-> -1, suffix |-> "null"]

\* An item that JSON.parse rejects.
CorruptItem == [corrupt |-> TRUE]

\* JSON.stringify / JSON.parse of the user-data object: the item is a string,
\* not the object, and parsing it yields a fresh copy of what was written.
Stringify(data) == [json |-> data]

Parse(item) == item.json

\* {}: every allData[userId] is undefined, which `|| []` turns into [].
EmptyData == [u \in Users |-> <<>>]

\* A variant of getAllUserData whose catch block leaves the item in place.
getAllUserDataKeepingItem(item) ==
    IF item = NoItem THEN [data |-> EmptyData, item |-> NoItem]
    ELSE IF item = CorruptItem THEN [data |-> EmptyData, item |-> CorruptItem]
    ELSE [data |-> Parse(item), item |-> item]

\* getAllUserData: the parsed object and what it leaves in localStorage (an
\* unparsable item is removed).
getAllUserData(item) ==
    IF item = NoItem THEN [data |-> EmptyData, item |-> NoItem]
    ELSE IF item = CorruptItem THEN [data |-> EmptyData, item |-> NoItem]
    ELSE [data |-> Parse(item), item |-> item]

\* A variant of the comparator that orders the oldest group first.
compareGroupsAscending(a, b) == a.lastAttemptTimestamp - b.lastAttemptTimestamp

\* userHistory.sort((a, b) => b.lastAttemptTimestamp - a.lastAttemptTimestamp),
\* a stable sort
compareGroups(a, b) == b.lastAttemptTimestamp - a.lastAttemptTimestamp

RECURSIVE InsertGroup(_, _)
InsertGroup(sorted, g) ==
    IF sorted = <<>> THEN <<g>>
    ELSE IF compareGroups(sorted[Len(sorted)], g) > 0
         THEN Append(InsertGroup(SubSeq(sorted, 1, Len(sorted) - 1), g), sorted[Len(sorted)])
         ELSE Append(sorted, g)

RECURSIVE SortGroups(_)
SortGroups(groups) ==
    IF groups = <<>> THEN <<>>
    ELSE InsertGroup(SortGroups(SubSeq(groups, 1, Len(groups) - 1)), groups[Len(groups)])

getHistory(item, userId) == SortGroups(getAllUserData(item).data[userId])

\* userHistory.find(g => g.id === historyGroupId): the position of the first
\* group with that id, 0 when there is none or the id is null.
FindGroup(userHistory, historyGroupId) ==
    IF historyGroupId = NullId THEN 0
    ELSE IF \E k \in DOMAIN userHistory : userHistory[k].id = historyGroupId
         THEN CHOOSE k \in DOMAIN userHistory :
                  /\ userHistory[k].id = historyGroupId
                  /\ \A j \in 1..(k - 1) : userHistory[j].id # historyGroupId
         ELSE 0

NewAttempt(submission, reads) ==
    [id |-> AttemptId(reads[1]),
     userAnswers |-> submission.userAnswers,
     score |-> submission.score,
     timestamp |-> reads[2]]

\* A variant of the retake branch that leaves the group's timestamp alone.
RetakeGroupStale(group, attempt) ==
    [group EXCEPT !.attempts = Append(@, attempt)]

\* A variant of the retake branch that puts the new attempt first (unshift).
RetakeGroupPrepending(group, attempt) ==
    [group EXCEPT !.attempts = <<attempt>> \o @,
                  !.lastAttemptTimestamp = attempt.timestamp]

\* The retake branch: the attempt is pushed and the timestamp refreshed.
RetakeGroup(group, attempt) ==
    [group EXCEPT !.attempts = Append(@, attempt),
                  !.lastAttemptTimestamp = attempt.timestamp]

NewGroup(submission, attempt, reads) ==
    [id |-> GroupId(reads[3]),
     article |-> submission.article,
     quiz |-> submission.quiz,
     title |-> submission.quiz.title,
     attempts |-> <<attempt>>,
     lastAttemptTimestamp |-> attempt.timestamp]

\* A variant of the new-quiz branch that starts the history over.
SavedHistoryReset(userHistory, submission, historyGroupId, reads) ==
    LET attempt == NewAttempt(submission, reads)
        k == FindGroup(userHistory, historyGroupId)
    IN  IF k > 0
        THEN [userHistory EXCEPT ![k] = RetakeGroup(@, attempt)]
        ELSE <<NewGroup(submission, attempt, reads)>>

\* userHistory as saveQuizAttempt stores it; the call returns
\* getHistory(userId) of the storage it has just written.
SavedHistory(userHistory, submission, historyGroupId, reads) ==
    LET attempt == NewAttempt(submission, reads)
        k == FindGroup(userHistory, historyGroupId)
    IN  IF k > 0
        THEN [userHistory EXCEPT ![k] = RetakeGroup(@, attempt)]
        ELSE Append(userHistory, NewGroup(submission, attempt, reads))

\* The values the three Date.now() calls of saveQuizAttempt may return (for
\* attempt.id, attempt.timestamp and the group id): time does not run
\* backwards, at most one millisecond passes before the call, the two reads
\* for the attempt fall in one millisecond and at most one more passes before
\* the read for the group id.
DateNowReads(now) ==
    {r \in (0..MaxClock) \X (0..MaxClock) \X (0..MaxClock) :
        /\ now <= r[1] /\ r[1] <= now + 1
        /\ r[1] = r[2] /\ r[2] <= r[3] /\ r[3] <= r[1] + 1}

RECURSIVE SumAttempts(_)
SumAttempts(groups) ==
    IF groups = <<>> THEN 0
    ELSE Len(groups[1].attempts) + SumAttempts(Tail(groups))

RECURSIVE StoredAttempts(_, _)
StoredAttempts(data, users) ==
    IF users = {} THEN 0
    ELSE LET u == CHOOSE v \in users : TRUE
         IN  SumAttempts(data[u]) + StoredAttempts(data, users \ {u})

\* The ids a caller may pass: null, the id of a stored group of any user, or
\* an id that names no group at all.
GroupIdInputs(data) ==
    {NullId, GroupId(MaxClock + 1)}
    \cup UNION {{data[u][k].id : k \in DOMAIN data[u]} : u \in Users}

InitHist ==
    /\ appData \in {NoItem, CorruptItem}
    /\ clock = 0

\* A call of getHistory: it returns getHistory(appData, userId) and writes
\* nothing, except that getAllUserData removes an unparsable item.
GetHistory(userId) ==
    /\ appData' = getAllUserData(appData).item
    /\ UNCHANGED clock

\* A variant of saveQuizAttempt that writes an object holding the history of
\* the saving user only.
saveQuizAttemptOwnDataOnly(item, userId, submission, historyGroupId, reads) ==
    LET allData == getAllUserData(item).data
        saved == SavedHistory(allData[userId], submission, historyGroupId, reads)
        written == Stringify([EmptyData EXCEPT ![userId] = saved])
    IN  [item |-> written, returned |-> getHistory(written, userId)]

\* saveQuizAttempt on a storage item: the item it writes and the list it
\* returns, getHistory(userId) of the item just written.
saveQuizAttempt(item, userId, submission, historyGroupId, reads) ==
    LET allData == getAllUserData(item).data
        saved == SavedHistory(allData[userId], submission, historyGroupId, reads)
        written == Stringify([allData EXCEPT ![userId] = saved])
    IN  [item |-> written, returned |-> getHistory(written, userId)]

SaveQuizAttempt(userId, submission, historyGroupId, reads) ==
    LET allData == getAllUserData(appData).data
        userHistory == allData[userId]
    IN  /\ StoredAttempts(allData, Users) < MaxAttempts
        /\ appData' = saveQuizAttempt(appData, userId, submission, historyGroupId, reads).item
        /\ clock' = IF FindGroup(userHistory, historyGroupId) > 0 THEN reads[2] ELSE reads[3]

\* A variant of the filter that keeps the named group and drops the others.
FilteredHistoryInverted(userHistory, groupId) ==
    SelectSeq(userHistory, LAMBDA group : group.id = groupId)

\* userHistory.filter(group => group.id !== groupId), which deleteHistoryGroup
\* stores and returns
FilteredHistory(userHistory, groupId) ==
    SelectSeq(userHistory, LAMBDA group : group.id # groupId)

\* deleteHistoryGroup on a storage item: the item it writes and the list it
\* returns (newHistory itself, not a sorted copy).
deleteHistoryGroup(item, userId, groupId) ==
    LET allData == getAllUserData(item).data
        newHistory == FilteredHistory(allData[userId], groupId)
    IN  [item |-> Stringify([allData EXCEPT ![userId] = newHistory]),
         returned |-> newHistory]

DeleteHistoryGroup(userId, groupId) ==
    /\ appData' = deleteHistoryGroup(appData, userId, groupId).item
    /\ UNCHANGED clock

StoredData == getAllUserData(appData).data

NextHist ==
    \/ \E u \in Users : GetHistory(u) /\ UNCHANGED <<genVars, runVars, gradeVars, appVars>>
    \/ \E u \in Users : \E submission \in Submissions :
       \E id \in GroupIdInputs(StoredData) : \E reads \in DateNowReads(clock) :
          SaveQuizAttempt(u, submission, id, reads) /\ UNCHANGED <<genVars, runVars, gradeVars, appVars>>
    \/ \E u \in Users : \E id \in GroupIdInputs(StoredData) :
          DeleteHistoryGroup(u, id) /\ UNCHANGED <<genVars, runVars, gradeVars, appVars>>

InitStore == InitGen /\ NoQuizOnScreen /\ InitHist /\ LoggedOut

SpecHist == InitStore /\ [][NextHist]_vars

(***************************************************************************)
(* Properties of the history store                                         *)
(***************************************************************************)
StoredIn(item, userId) == getAllUserData(item).data[userId]

AttemptsIn(item) == StoredAttempts(getAllUserData(item).data, Users)

\* Only saveQuizAttempt adds an attempt to the storage.
AttemptAdded == AttemptsIn(appData') > AttemptsIn(appData)

\* saveQuizAttempt always writes a storage item that differs from the old one.
StorageWritten == appData' # appData

\* What a saveQuizAttempt step that found group k of old must leave in new.
RetakeEffect(old, new, k, submission, reads) ==
    /\ Len(new) = Len(old)
    /\ \A j \in DOMAIN old : j # k => new[j] = old[j]
    /\ Len(new[k].attempts) = Len(old[k].attempts) + 1
    /\ SubSeq(new[k].attempts, 1, Len(old[k].attempts)) = old[k].attempts
    /\ new[k].article = old[k].article
    /\ new[k].quiz = old[k].quiz
    /\ new[k].id = old[k].id
    /\ new[k].title = old[k].title
    /\ LET appended == new[k].attempts[Len(new[k].attempts)]
       IN  /\ appended.timestamp = reads[2]
           /\ appended.userAnswers = submission.userAnswers
           /\ appended.score = submission.score
           /\ new[k].lastAttemptTimestamp = appended.timestamp

\* C9: every saveQuizAttempt call whose historyGroupId names a group of the
\* user (the first one carrying that id) makes that group's attempts one
\* longer, keeps its article, quiz, id and title, creates no group, changes
\* no other group and sets its lastAttemptTimestamp to the timestamp of the
\* attempt just appended.
C9_RetakeAppendsToGroup ==
    [][AttemptAdded => \A u \in Users : \A submission \in Submissions :
       \A id \in GroupIdInputs(StoredData) : \A reads \in DateNowReads(clock) :
          (/\ FindGroup(StoredIn(appData, u), id) > 0
           /\ SaveQuizAttempt(u, submission, id, reads))
          => RetakeEffect(StoredIn(appData, u), StoredIn(appData', u),
                          FindGroup(StoredIn(appData, u), id), submission, reads)]_vars

\* A group that was retaken twice: three attempts, the last one the latest.
C9_Witness ==
    \E u \in Users : \E k \in DOMAIN StoredIn(appData, u) :
        LET group == StoredIn(appData, u)[k]
        IN  /\ Len(group.attempts) = 3
            /\ group.attempts[1].timestamp < group.attempts[3].timestamp
            /\ group.lastAttemptTimestamp = group.attempts[3].timestamp

\* What a saveQuizAttempt step that found no group of old must leave in new.
NewGroupEffect(old, new, submission) ==
    /\ Len(new) = Len(old) + 1
    /\ SubSeq(new, 1, Len(old)) = old
    /\ LET added == new[Len(new)]
       IN  /\ Len(added.attempts) = 1
           /\ added.attempts[1].userAnswers = submission.userAnswers
           /\ added.attempts[1].score = submission.score
           /\ added.article = submission.article
           /\ added.quiz = submission.quiz

\* C10: saveQuizAttempt with historyGroupId null, or with an id that names no
\* group of the user, adds exactly one group holding exactly one attempt (the
\* given answers and score) and the given article and quiz, and leaves every
\* group the user had unchanged.
C10_NewQuizAddsOneGroup ==
    [][StorageWritten => \A u \in Users : \A submission \in Submissions :
       \A id \in GroupIdInputs(StoredData) : \A reads \in DateNowReads(clock) :
          (/\ FindGroup(StoredIn(appData, u), id) = 0
           /\ SaveQuizAttempt(u, submission, id, reads))
          => NewGroupEffect(StoredIn(appData, u), StoredIn(appData', u), submission)]_vars

\* A user with two groups of one attempt each, of different submissions.
C10_Witness ==
    \E u \in Users :
        LET userHistory == StoredIn(appData, u)
        IN  /\ Len(userHistory) = 2
            /\ Len(userHistory[1].attempts) = 1
            /\ Len(userHistory[2].attempts) = 1
            /\ userHistory[1].article # userHistory[2].article

\* What deleteHistoryGroup(u, g) must leave of the history old: no group with
\* id g, and the other groups as they were, in the order they had.
DeleteEffect(old, new, g) ==
    /\ \A j \in DOMAIN new : new[j].id # g
    /\ \A k \in DOMAIN old : old[k].id # g => \E j \in DOMAIN new : new[j] = old[k]
    /\ \A j \in DOMAIN new : \E k \in DOMAIN old : old[k] = new[j]
    /\ Len(new) = Cardinality({k \in DOMAIN old : old[k].id # g})

\* C11: after deleteHistoryGroup(user, g), getHistory(user) holds no group
\* with id g and every other group of the user unchanged; a second
\* deleteHistoryGroup(user, g) returns what the first returned and leaves the
\* storage as the first left it.
C11_DeleteRemovesGroupAndIsIdempotent ==
    [][~AttemptAdded => \A u \in Users : \A g \in GroupIdInputs(StoredData) \ {NullId} :
          DeleteHistoryGroup(u, g)
          => LET first == deleteHistoryGroup(appData, u, g)
                 second == deleteHistoryGroup(appData', u, g)
             IN  /\ DeleteEffect(getHistory(appData, u), getHistory(appData', u), g)
                 /\ DeleteEffect(StoredIn(appData, u), first.returned, g)
                 /\ second.returned = first.returned
                 /\ second.item = appData']_vars

\* Every group has been deleted again: the storage was written, time has
\* passed in a save, and no attempt is left.
C11_Witness ==
    /\ appData \notin {NoItem, CorruptItem}
    /\ clock > 0
    /\ AttemptsIn(appData) = 0

Occurrences(list, x) == Cardinality({k \in DOMAIN list : list[k] = x})

\* list holds exactly the groups of stored, latest lastAttemptTimestamp first.
SortedHistoryOf(list, stored) ==
    /\ Len(list) = Len(stored)
    /\ \A k \in DOMAIN stored : Occurrences(list, stored[k]) = Occurrences(stored, stored[k])
    /\ \A j \in 1..(Len(list) - 1) :
          list[j].lastAttemptTimestamp >= list[j + 1].lastAttemptTimestamp

\* C12: after any sequence of saveQuizAttempt and deleteHistoryGroup calls,
\* getHistory(user) returns all groups of the user, descending by
\* lastAttemptTimestamp, and the list a saveQuizAttempt call returns is the
\* updated history in that order.
C12_HistorySortedDescending ==
    /\ [](\A u \in Users : SortedHistoryOf(getHistory(appData, u), StoredIn(appData, u)))
    /\ [][AttemptAdded => \A u \in Users : \A submission \in Submissions :
          \A id \in GroupIdInputs(StoredData) : \A reads \in DateNowReads(clock) :
             SaveQuizAttempt(u, submission, id, reads)
             => SortedHistoryOf(saveQuizAttempt(appData, u, submission, id, reads).returned,
                                StoredIn(appData', u))]_vars

\* A history stored oldest group first, which getHistory has to reorder.
C12_Witness ==
    \E u \in Users :
        LET stored == StoredIn(appData, u)
        IN  /\ Len(stored) >= 2
            /\ stored[1].lastAttemptTimestamp < stored[2].lastAttemptTimestamp
            /\ getHistory(appData, u)[1] = stored[2]

Distinct(list) == \A j, k \in DOMAIN list : j # k => list[j] # list[k]

IdsOf(list) == [k \in DOMAIN list |-> list[k].id]

\* C14: after any sequence of saveQuizAttempt calls, also calls within one
\* clock millisecond, no two groups of a user share an id and no two attempts
\* of a group share an id.
C14_IdsUnique ==
    \A u \in Users :
        /\ Distinct(IdsOf(StoredIn(appData, u)))
        /\ \A k \in DOMAIN StoredIn(appData, u) :
              Distinct(IdsOf(StoredIn(appData, u)[k].attempts))

\* C26: the list deleteHistoryGroup(user, g) returns is what getHistory(user)
\* returns immediately afterwards: the same groups in the same order,
\* descending by lastAttemptTimestamp.
C26_DeleteReturnsSortedHistory ==
    \A u \in Users : \A g \in GroupIdInputs(StoredData) \ {NullId} :
        LET deleted == deleteHistoryGroup(appData, u, g)
        IN  deleted.returned = getHistory(deleted.item, u)

\* What a call for user u must leave alone: the stored history of every other
\* user (same groups, same attempts, same order) and the last-user item.
OtherUsersUntouched(u) ==
    /\ \A v \in Users \ {u} : StoredIn(appData', v) = StoredIn(appData, v)
    /\ lastUser' = lastUser

\* C32: saveQuizAttempt(u, ...) and deleteHistoryGroup(u, ...) leave the
\* stored history of every other user and the stored last-user identifier
\* unchanged, whatever group id they are given (also the id of a group of
\* another user).
C32_OtherUsersUntouched ==
    [][StorageWritten => \A u \in Users : \A id \in GroupIdInputs(StoredData) :
          /\ DeleteHistoryGroup(u, id) => OtherUsersUntouched(u)
          /\ \A submission \in Submissions : \A reads \in DateNowReads(clock) :
                SaveQuizAttempt(u, submission, id, reads) => OtherUsersUntouched(u)]_vars

\* Both users hold a group, and the groups were stored at different times:
\* the later save found the other user's history in the storage.
C32_Witness ==
    /\ Len(StoredIn(appData, "u1")) = 1
    /\ Len(StoredIn(appData, "u2")) = 2
    /\ StoredIn(appData, "u1")[1].lastAttemptTimestamp
          < StoredIn(appData, "u2")[2].lastAttemptTimestamp

\* C33: after any sequence of saveQuizAttempt and deleteHistoryGroup calls
\* under a clock that never runs backwards, every stored group has at least
\* one attempt, and its lastAttemptTimestamp is the timestamp of the attempt
\* appended last, which is the largest timestamp among its attempts.
C33_LastAttemptTimestampIsLatest ==
    \A u \in Users : \A k \in DOMAIN StoredIn(appData, u) :
        LET group == StoredIn(appData, u)[k]
        IN  /\ Len(group.attempts) >= 1
            /\ group.lastAttemptTimestamp = group.attempts[Len(group.attempts)].timestamp
            /\ \A j \in DOMAIN group.attempts :
                  group.attempts[j].timestamp <= group.lastAttemptTimestamp

\* A group retaken in a later millisecond, stored next to a group that was
\* created after that retake's group and never retaken.
C33_Witness ==
    \E u \in Users :
        LET stored == StoredIn(appData, u)
        IN  /\ Len(stored) = 2
            /\ Len(stored[1].attempts) = 2
            /\ stored[1].attempts[1].timestamp < stored[1].attempts[2].timestamp
            /\ stored[1].lastAttemptTimestamp > stored[2].lastAttemptTimestamp

\* C37: when the stored user data cannot be parsed, reading the history
\* raises no error: getAllUserData removes the item, getHistory returns the
\* empty list for every user, and a saveQuizAttempt that follows stores a
\* history holding exactly the one new group (and nothing for other users).
C37_CorruptDataReadsAsEmpty ==
    /\ [](appData = CorruptItem =>
            /\ getAllUserData(appData).item = NoItem
            /\ \A u \in Users :
                  /\ getHistory(appData, u) = <<>>
                  /\ \A submission \in Submissions : \A id \in GroupIdInputs(StoredData) :
                     \A reads \in DateNowReads(clock) :
                        LET saved == saveQuizAttempt(appData, u, submission, id, reads)
                            group == NewGroup(submission, NewAttempt(submission, reads), reads)
                        IN  /\ StoredIn(saved.item, u) = <<group>>
                            /\ saved.returned = <<group>>
                            /\ \A v \in Users \ {u} : StoredIn(saved.item, v) = <<>>)
    /\ [][(appData = CorruptItem /\ \E u \in Users : GetHistory(u)) => appData' = NoItem]_vars
    /\ [][(appData = CorruptItem /\ AttemptAdded) => AttemptsIn(appData') = 1]_vars

\* The unparsable item is in the storage and a save on it returns one group.
C37_Witness ==
    /\ appData = CorruptItem
    /\ \E submission \in Submissions :
          Len(saveQuizAttempt(appData, "u2", submission, NullId, <<0, 0, 1>>).returned) = 1
    /\ getHistory(appData, "u1") = <<>>

(***************************************************************************)
(* App.tsx: the session (login, generation, taking a quiz, history)        *)
(* The screens offer only the handlers wired to them in renderContent.     *)
(* generateQuiz is represented by its outcome: the quiz it assembles or    *)
(* the error it wraps.                                                     *)
(***************************************************************************)
\* Bound: the number of attempts the sessions store in the whole installation.
MaxSessionAttempts == 3

\* What may be typed into the login box and the article box.
LoginIds == Users \cup {" "}

ArticleTexts == Articles \cup {" "}

\* String.prototype.trim on the texts above
Trim(text) == IF text = " " THEN "" ELSE text

\* group.attempts.sort((a, b) => b.timestamp - a.timestamp): stable, in place
compareAttempts(a, b) == b.timestamp - a.timestamp

RECURSIVE InsertAttempt(_, _)
InsertAttempt(sorted, attempt) ==
    IF sorted = <<>> THEN <<attempt>>
    ELSE IF compareAttempts(sorted[Len(sorted)], attempt) > 0
         THEN Append(InsertAttempt(SubSeq(sorted, 1, Len(sorted) - 1), attempt),
                     sorted[Len(sorted)])
         ELSE Append(sorted, attempt)

RECURSIVE SortAttempts(_)
SortAttempts(attempts) ==
    IF attempts = <<>> THEN <<>>
    ELSE InsertAttempt(SortAttempts(SubSeq(attempts, 1, Len(attempts) - 1)),
                       attempts[Len(attempts)])

\* A variant of the card that sorts a copy of the attempts.
HistoryCardOnCopy(group) == group

\* Rendering a HistoryCard (and the AttemptSelectionScreen) sorts the attempts
\* of the group object it is given, which is the object held in the state.
HistoryCard(group) == [group EXCEPT !.attempts = SortAttempts(@)]

\* The history list after the screen of state has been rendered: the input
\* screen renders one HistoryCard per group.
Rendered(state, list) ==
    IF state = "input" THEN [k \in DOMAIN list |-> HistoryCard(list[k])] ELSE list

\* new Array(quiz.questions.length).fill(null)
NullAnswers(q) == [n \in DOMAIN q.questions |-> Null]

\* The score memo over the quiz object of the session.
AppScore(q, answers) == IF q = NoValue THEN 0 ELSE Score(q.questions, answers)

\* The values generateQuiz may resolve with and the errors it may reject with.
GeneratedQuizzes ==
    {AssembledQuiz(m, [i \in Indices |-> "fulfilled"],
                   [i \in Indices |-> FaithfulResponse(i)]) :
        m \in MetadataResponses}

GenerationErrors == {WrapError(message) : message \in ErrorMessages}

InitApp == InitGen /\ NoQuizOnScreen /\ EmptyStorage /\ LoggedOut

\* handleRestart without its last line
ResetQuizState ==
    /\ appArticle' = ""
    /\ quiz' = NoValue
    /\ userAnswers' = <<>>
    /\ currentQuestionIndex' = 0
    /\ error' = NoValue
    /\ selectedHistoryGroup' = NoValue
    /\ selectedAttempt' = NoValue
    /\ currentQuizContext' = NullId
    /\ score' = 0

HandleLogin(userId) ==
    LET cleanedUserId == Trim(userId)
    IN  /\ appState = "login"
        /\ IF cleanedUserId # ""
           THEN /\ currentUserId' = cleanedUserId
                /\ lastUser' = cleanedUserId
                /\ history' = Rendered("input", getHistory(appData, cleanedUserId))
                /\ appData' = getAllUserData(appData).item
                /\ appState' = "input"
           ELSE UNCHANGED <<currentUserId, lastUser, history, appData, appState>>
        /\ UNCHANGED <<clock, error, appArticle, generationProgress, currentQuestionIndex,
                       currentQuizContext, selectedHistoryGroup, selectedAttempt, gradeVars>>

HandleLogout ==
    /\ appState = "input"
    /\ currentUserId' = NoUser
    /\ lastUser' = NoUser
    /\ history' = <<>>
    /\ ResetQuizState
    /\ appState' = "login"
    /\ UNCHANGED <<histVars, generationProgress>>

\* Typing into the article box.
SetArticle(text) ==
    /\ appState = "input"
    /\ appArticle' = text
    /\ UNCHANGED <<appState, currentUserId, lastUser, error, generationProgress,
                   currentQuestionIndex, history, currentQuizContext,
                   selectedHistoryGroup, selectedAttempt, gradeVars, histVars>>

\* A variant of handleGenerateQuiz without the early return.
HandleGenerateQuizUnguarded ==
    /\ appState = "input"
    /\ appState' = "loading"
    /\ error' = NoValue
    /\ quiz' = NoValue
    /\ score' = 0
    /\ currentQuizContext' = NullId
    /\ generationProgress' = Progress("Initializing...", 0, Scaled(0))
    /\ UNCHANGED <<currentUserId, lastUser, appArticle, currentQuestionIndex, history,
                   selectedHistoryGroup, selectedAttempt, userAnswers, histVars>>

\* handleGenerateQuiz up to the await.
HandleGenerateQuiz ==
    /\ appState = "input"
    /\ IF Trim(appArticle) = "" \/ currentUserId = NoUser
       THEN UNCHANGED <<appState, error, quiz, score, currentQuizContext, generationProgress>>
       ELSE /\ appState' = "loading"
            /\ error' = NoValue
            /\ quiz' = NoValue
            /\ score' = 0
            /\ currentQuizContext' = NullId
            /\ generationProgress' = Progress("Initializing...", 0, Scaled(0))
    /\ UNCHANGED <<currentUserId, lastUser, appArticle, currentQuestionIndex, history,
                   selectedHistoryGroup, selectedAttempt, userAnswers, histVars>>

\* The await returns: the try block, then finally. The thirteen requests of
\* a successful generation take at least one millisecond of the clock.
GenerateQuizResolves(generated) ==
    /\ appState = "loading"
    /\ clock < MaxClock
    /\ clock' = clock + 1
    /\ quiz' = generated
    /\ userAnswers' = NullAnswers(generated)
    /\ score' = AppScore(generated, NullAnswers(generated))
    /\ currentQuestionIndex' = 0
    /\ appState' = "quiz"
    /\ generationProgress' = NoValue
    /\ UNCHANGED <<currentUserId, lastUser, error, appArticle, history, currentQuizContext,
                   selectedHistoryGroup, selectedAttempt, appData>>

\* The await throws: the catch block, then finally.
GenerateQuizRejects(e) ==
    /\ appState = "loading"
    /\ error' = [text |-> e.message]
    /\ appState' = "error"
    /\ generationProgress' = NoValue
    /\ UNCHANGED <<currentUserId, lastUser, appArticle, currentQuestionIndex, history,
                   currentQuizContext, selectedHistoryGroup, selectedAttempt,
                   gradeVars, histVars>>

\* A variant of Try Again that goes through handleRestart.
TryAgainRestarting ==
    /\ appState = "error"
    /\ ResetQuizState
    /\ appState' = "input"
    /\ history' = Rendered("input", history)
    /\ UNCHANGED <<currentUserId, lastUser, generationProgress, histVars>>

\* onTryAgain of the error screen: setAppState('input')
TryAgain ==
    /\ appState = "error"
    /\ appState' = "input"
    /\ history' = Rendered("input", history)
    /\ UNCHANGED <<currentUserId, lastUser, error, appArticle, generationProgress,
                   currentQuestionIndex, currentQuizContext, selectedHistoryGroup,
                   selectedAttempt, gradeVars, histVars>>

\* onRestart of the results screen, onBack of the attempt selection
HandleRestart ==
    /\ appState \in {"results", "select_attempt"}
    /\ ResetQuizState
    /\ appState' = "input"
    /\ history' = Rendered("input", history)
    /\ UNCHANGED <<currentUserId, lastUser, generationProgress, histVars>>

HandleFinishQuiz(reads) ==
    IF quiz = NoValue \/ currentUserId = NoUser
    THEN UNCHANGED <<appVars, gradeVars, histVars>>
    ELSE LET newAttemptData == [article |-> appArticle, quiz |-> quiz,
                                userAnswers |-> userAnswers, score |-> score]
             groupId == currentQuizContext
             saved == saveQuizAttempt(appData, currentUserId, newAttemptData, groupId, reads)
         IN  /\ StoredAttempts(getAllUserData(appData).data, Users) < MaxSessionAttempts
             /\ appData' = saved.item
             /\ clock' = IF FindGroup(StoredIn(appData, currentUserId), groupId) > 0
                         THEN reads[2] ELSE reads[3]
             /\ history' = saved.returned
             /\ appState' = "results"
             /\ UNCHANGED <<currentUserId, lastUser, error, appArticle, generationProgress,
                            currentQuestionIndex, currentQuizContext, selectedHistoryGroup,
                            selectedAttempt, gradeVars>>

\* onBackToResults of the quiz screen
BackToResults ==
    /\ selectedAttempt' = NoValue
    /\ appState' = "results"
    /\ UNCHANGED <<currentUserId, lastUser, error, appArticle, generationProgress,
                   currentQuestionIndex, history, currentQuizContext, selectedHistoryGroup,
                   gradeVars, histVars>>

HandleNext ==
    /\ appState \in {"quiz", "review"}
    /\ quiz # NoValue
    /\ IF currentQuestionIndex < Len(quiz.questions) - 1
       THEN /\ currentQuestionIndex' = currentQuestionIndex + 1
            /\ UNCHANGED <<appState, currentUserId, lastUser, error, appArticle,
                           generationProgress, history, currentQuizContext,
                           selectedHistoryGroup, selectedAttempt, gradeVars, histVars>>
       ELSE IF appState = "review"
            THEN BackToResults
            ELSE \E reads \in DateNowReads(clock) : HandleFinishQuiz(reads)

\* A variant of handlePrev without the test for the first question.
HandlePrevUnguarded ==
    /\ appState \in {"quiz", "review"}
    /\ quiz # NoValue
    /\ currentQuestionIndex' = currentQuestionIndex - 1
    /\ UNCHANGED <<appState, currentUserId, lastUser, error, appArticle, generationProgress,
                   history, currentQuizContext, selectedHistoryGroup, selectedAttempt,
                   gradeVars, histVars>>

HandlePrev ==
    /\ appState \in {"quiz", "review"}
    /\ quiz # NoValue
    /\ currentQuestionIndex' =
          IF currentQuestionIndex > 0 THEN currentQuestionIndex - 1 ELSE currentQuestionIndex
    /\ UNCHANGED <<appState, currentUserId, lastUser, error, appArticle, generationProgress,
                   history, currentQuizContext, selectedHistoryGroup, selectedAttempt,
                   gradeVars, histVars>>

\* onReview and onAnalyze of the results screen, onBackToResults of the report
ShowScreen(state) ==
    /\ \/ appState = "results" /\ state \in {"review", "analysis"}
       \/ appState = "analysis" /\ state = "results"
    /\ appState' = state
    /\ UNCHANGED <<currentUserId, lastUser, error, appArticle, generationProgress,
                   currentQuestionIndex, history, currentQuizContext, selectedHistoryGroup,
                   selectedAttempt, gradeVars, histVars>>

\* The attempt selection is rendered on the object the history holds; its
\* attempts are in the order the card left them in.
HandleReviewFromHistory(k) ==
    /\ appState = "input"
    /\ k \in DOMAIN history
    /\ selectedHistoryGroup' = HistoryCard(history[k])
    /\ appState' = "select_attempt"
    /\ UNCHANGED <<currentUserId, lastUser, error, appArticle, generationProgress,
                   currentQuestionIndex, history, currentQuizContext, selectedAttempt,
                   gradeVars, histVars>>

HandleSelectAttemptForReview(j) ==
    /\ appState = "select_attempt"
    /\ selectedHistoryGroup # NoValue
    /\ j \in DOMAIN selectedHistoryGroup.attempts
    /\ appArticle' = selectedHistoryGroup.article
    /\ quiz' = selectedHistoryGroup.quiz
    /\ selectedAttempt' = selectedHistoryGroup.attempts[j]
    /\ userAnswers' = selectedHistoryGroup.attempts[j].userAnswers
    /\ score' = AppScore(quiz', userAnswers')
    /\ currentQuestionIndex' = Len(selectedHistoryGroup.quiz.questions) - 1
    /\ appState' = "results"
    /\ UNCHANGED <<currentUserId, lastUser, error, generationProgress, history,
                   currentQuizContext, selectedHistoryGroup, histVars>>

\* A variant of the retake that does not remember the group.
HandleRetakeFromHistoryUnlinked(k) ==
    /\ appState = "input"
    /\ k \in DOMAIN history
    /\ appArticle' = history[k].article
    /\ quiz' = history[k].quiz
    /\ userAnswers' = NullAnswers(history[k].quiz)
    /\ score' = AppScore(quiz', userAnswers')
    /\ currentQuestionIndex' = 0
    /\ appState' = "quiz"
    /\ UNCHANGED <<currentUserId, lastUser, error, generationProgress, history,
                   currentQuizContext, selectedHistoryGroup, selectedAttempt, histVars>>

HandleRetakeFromHistory(k) ==
    /\ appState = "input"
    /\ k \in DOMAIN history
    /\ appArticle' = history[k].article
    /\ quiz' = history[k].quiz
    /\ userAnswers' = NullAnswers(history[k].quiz)
    /\ score' = AppScore(quiz', userAnswers')
    /\ currentQuestionIndex' = 0
    /\ currentQuizContext' = history[k].id
    /\ appState' = "quiz"
    /\ UNCHANGED <<currentUserId, lastUser, error, generationProgress, history,
                   selectedHistoryGroup, selectedAttempt, histVars>>

HandleDeleteFromHistory(groupId) ==
    /\ appState = "input"
    /\ IF currentUserId = NoUser
       THEN UNCHANGED <<appData, history>>
       ELSE LET deleted == deleteHistoryGroup(appData, currentUserId, groupId)
            IN  /\ appData' = deleted.item
                /\ history' = Rendered("input", deleted.returned)
    /\ UNCHANGED <<clock, appState, currentUserId, lastUser, error, appArticle,
                   generationProgress, currentQuestionIndex, currentQuizContext,
                   selectedHistoryGroup, selectedAttempt, gradeVars>>

NextApp ==
    \/ \E userId \in LoginIds : HandleLogin(userId) /\ UNCHANGED <<genVars, runVars>>
    \/ HandleLogout /\ UNCHANGED <<genVars, runVars>>
    \/ \E text \in ArticleTexts : SetArticle(text) /\ UNCHANGED <<genVars, runVars>>
    \/ HandleGenerateQuiz /\ UNCHANGED <<genVars, runVars>>
    \/ \E generated \in GeneratedQuizzes : GenerateQuizResolves(generated) /\ UNCHANGED <<genVars, runVars>>
    \/ \E e \in GenerationErrors : GenerateQuizRejects(e) /\ UNCHANGED <<genVars, runVars>>
    \/ TryAgain /\ UNCHANGED <<genVars, runVars>>
    \/ HandleRestart /\ UNCHANGED <<genVars, runVars>>
    \/ HandleNext /\ UNCHANGED <<genVars, runVars>>
    \/ HandlePrev /\ UNCHANGED <<genVars, runVars>>
    \/ \E state \in {"review", "analysis", "results"} : ShowScreen(state) /\ UNCHANGED <<genVars, runVars>>
    \/ \E k \in DOMAIN history : HandleReviewFromHistory(k) /\ UNCHANGED <<genVars, runVars>>
    \/ \E j \in 1..MaxSessionAttempts : HandleSelectAttemptForReview(j) /\ UNCHANGED <<genVars, runVars>>
    \/ \E k \in DOMAIN history : HandleRetakeFromHistory(k) /\ UNCHANGED <<genVars, runVars>>
    \/ \E k \in DOMAIN history : HandleDeleteFromHistory(history[k].id) /\ UNCHANGED <<genVars, runVars>>

SpecApp == InitApp /\ [][NextApp]_vars

(***************************************************************************)
(* Properties of the session                                               *)
(***************************************************************************)
IsPrefix(short, long) ==
    /\ Len(short) <= Len(long)
    /\ SubSeq(long, 1, Len(short)) = short

\* C13: attempts within a group are append-only. Whenever a group of the
\* history held by the application is still there after an operation, the
\* attempts it had are still its first attempts, unmodified and in the order
\* they were appended in. (Groups are told apart by id; steps between
\* histories with a duplicate id are left out.)
C13_AttemptsAppendOnly ==
    [][(Distinct(IdsOf(history)) /\ Distinct(IdsOf(history')))
       => \A j \in DOMAIN history : \A k \in DOMAIN history' :
             history[j].id = history'[k].id
             => IsPrefix(history[j].attempts, history'[k].attempts)]_vars

\* C15: when generateQuiz rejects the application shows the error screen with
\* the one error message of the rejection and no quiz, the stored history of
\* every user is as it was, and Try Again leads to the input screen with the
\* article text still in place.
C15_FailedGenerationShowsError ==
    /\ [](appState = "error" =>
            /\ quiz = NoValue
            /\ \E e \in GenerationErrors : error = [text |-> e.message])
    /\ [][\A e \in GenerationErrors : GenerateQuizRejects(e) =>
            /\ appState' = "error"
            /\ error' = [text |-> e.message]
            /\ quiz' = NoValue
            /\ appData' = appData
            /\ appArticle' = appArticle]_vars
    /\ [][appState = "error" =>
            /\ appState' \in {"error", "input"}
            /\ appArticle' = appArticle
            /\ Trim(appArticle') # ""
            /\ appData' = appData]_vars

\* A generation has failed for a user who has a stored attempt, and
\* Try Again has led back to the input screen: the message is still set and
\* the article is still there.
C15_Witness ==
    /\ appState = "input"
    /\ error # NoValue
    /\ appArticle = "passage"
    /\ currentUserId # NoUser
    /\ AttemptsIn(appData) > 0

\* The groups of the current user with the given id.
GroupsWithId(item, id) ==
    {k \in DOMAIN StoredIn(item, currentUserId) : StoredIn(item, currentUserId)[k].id = id}

\* What finishing a freshly generated quiz leaves in the user's stored list.
FreshFinishEffect(old, new) ==
    /\ Len(new) = Len(old) + 1
    /\ SubSeq(new, 1, Len(old)) = old
    /\ new[Len(new)].quiz = quiz
    /\ new[Len(new)].article = appArticle
    /\ Len(new[Len(new)].attempts) = 1

\* What finishing a retake of the group with the given id leaves there.
RetakeFinishEffect(old, new, id) ==
    /\ Len(new) = Len(old)
    /\ \E k \in DOMAIN old :
          /\ old[k].id = id
          /\ old[k].quiz = quiz
          /\ old[k].article = appArticle
          /\ new[k].id = id
          /\ new[k].quiz = quiz
          /\ Len(new[k].attempts) = Len(old[k].attempts) + 1
          /\ SubSeq(new[k].attempts, 1, Len(old[k].attempts)) = old[k].attempts
          /\ \A j \in DOMAIN old \ {k} : new[j] = old[j] /\ old[j].id # id

\* C24: in the application, finishing a freshly generated quiz adds exactly
\* one group to the user's history; Retake on a group links the quiz to that
\* group and finishing it appends the attempt to that group, to no other, and
\* creates none; the link is null on the login, input, loading, error and
\* attempt selection screens, so generating a new quiz or restarting resets it.
C24_RetakeLinkFollowsQuiz ==
    /\ [](appState \in {"login", "input", "loading", "error", "select_attempt"}
             => currentQuizContext = NullId)
    /\ [](appState = "quiz" /\ currentQuizContext # NullId
             => \E k \in DOMAIN StoredIn(appData, currentUserId) :
                   /\ GroupsWithId(appData, currentQuizContext) = {k}
                   /\ StoredIn(appData, currentUserId)[k].quiz = quiz)
    /\ [][/\ (appState = "loading" /\ appState' = "quiz") => currentQuizContext' = NullId
          /\ (appState = "input" /\ appState' = "quiz")
                => \E k \in DOMAIN history :
                      /\ currentQuizContext' = history[k].id
                      /\ quiz' = history[k].quiz
          /\ (appState = "quiz" /\ appState' = "results")
                => /\ IF currentQuizContext = NullId
                      THEN FreshFinishEffect(StoredIn(appData, currentUserId),
                                             StoredIn(appData', currentUserId))
                      ELSE RetakeFinishEffect(StoredIn(appData, currentUserId),
                                              StoredIn(appData', currentUserId),
                                              currentQuizContext)
                   /\ \A u \in Users \ {currentUserId} :
                         StoredIn(appData', u) = StoredIn(appData, u)]_vars

\* Two groups are stored and a retake of the older one has been finished:
\* the attempt is in that group and the younger group still has one attempt.
C24_Witness ==
    /\ appState = "results"
    /\ currentUserId # NoUser
    /\ currentQuizContext # NullId
    /\ LET stored == StoredIn(appData, currentUserId)
       IN  /\ Len(stored) = 2
           /\ stored[1].id = currentQuizContext
           /\ Len(stored[1].attempts) = 2
           /\ Len(stored[2].attempts) = 1

\* C38: handleGenerateQuiz with an empty or whitespace-only article, or with
\* no user logged in, changes nothing (appState, quiz, error, retake link and
\* progress stay as they are and no generation is started), so a generation
\* is only ever awaited for a non-blank article, and the application is never
\* in the loading, quiz or results state without a current user.
C38_BlankGenerationIsNoOp ==
    /\ [][(/\ appState = "input"
           /\ Trim(appArticle) = "" \/ currentUserId = NoUser
           /\ HandleGenerateQuiz)
            => UNCHANGED <<appState, quiz, error, currentQuizContext, generationProgress,
                           userAnswers, score, history, histVars>>]_vars
    /\ [](appState = "loading" => Trim(appArticle) # "")
    /\ [](appState \in {"loading", "quiz", "results"} => currentUserId # NoUser)

\* A user who has already stored an attempt is on the input screen with a
\* whitespace-only article, where Generate changes nothing.
C38_Witness ==
    /\ appState = "input"
    /\ appArticle = " "
    /\ currentUserId = "u2"
    /\ Len(history) = 1

\* C39: while a quiz is displayed (quiz or review state) currentQuestionIndex
\* is at least 0 and at most questions.length - 1, after any sequence of Next
\* and Previous; Previous at index 0 changes nothing, and Next at the last
\* index never increments the index: it submits in quiz mode and returns to
\* the results in review mode.
C39_QuestionIndexInRange ==
    /\ []((appState \in {"quiz", "review"} /\ quiz # NoValue) =>
            /\ currentQuestionIndex >= 0
            /\ currentQuestionIndex <= Len(quiz.questions) - 1)
    /\ [][(currentQuestionIndex = 0 /\ HandlePrev) => UNCHANGED <<appVars, gradeVars, histVars>>]_vars
    /\ [][(/\ appState \in {"quiz", "review"}
           /\ quiz # NoValue
           /\ currentQuestionIndex = Len(quiz.questions) - 1
           /\ HandleNext)
            => /\ currentQuestionIndex' = currentQuestionIndex
               /\ appState' = "results"
               /\ (appState = "quiz") = AttemptAdded]_vars

\* A stored attempt is reviewed from the history and paged back to the first
\* question.
C39_Witness ==
    /\ appState = "review"
    /\ selectedAttempt # NoValue
    /\ currentQuestionIndex = 0

(***************************************************************************)
(* The loading phase: handleGenerateQuiz of App.tsx around generateQuiz,   *)
(* with setGenerationProgress as the onProgress of every invocation.       *)
(* The calls of an invocation that has rejected stay in flight and their   *)
(* then-callbacks still run, also while a later invocation is loading.     *)
(***************************************************************************)
\* Bound: a generation is started only while at most MaxStale calls of
\* earlier invocations are still in flight.
MaxStale == 1

RECURSIVE SumPending(_)
SumPending(runs) ==
    IF runs = <<>> THEN 0 ELSE runs[1].pending + SumPending(Tail(runs))

\* The question calls in flight, of the last invocation and of earlier ones.
InFlight == Cardinality(Pending(questionPromises)) + SumPending(earlierRuns)

\* setGenerationProgress
SetGenerationProgress(progress) ==
    /\ generationProgress' = progress
    /\ UNCHANGED <<appState, currentUserId, lastUser, error, appArticle,
                   currentQuestionIndex, history, currentQuizContext,
                   selectedHistoryGroup, selectedAttempt, gradeVars, histVars>>

\* What a step of the invocation handleGenerateQuiz awaits does to the
\* application: when it settles generateQuiz the await returns or throws
\* (after the emissions of the step), otherwise its emission is shown.
AwaitGenerateQuiz ==
    IF pc' = "resolved" /\ pc # "resolved" THEN GenerateQuizResolves(generatedQuiz')
    ELSE IF pc' = "rejected" /\ pc # "rejected" THEN GenerateQuizRejects(thrown')
    ELSE IF emitted' # emitted THEN SetGenerationProgress(emitted'[Len(emitted')])
    ELSE UNCHANGED <<appVars, gradeVars, histVars>>

\* A further invocation of generateQuiz after one that rejected: its locals
\* are fresh; the calls of the invocation before stay in flight together
\* with the counter their callbacks share.
CallGenerateQuizAgain(a) ==
    /\ pc = "rejected"
    /\ earlierRuns' =
          IF Pending(questionPromises) = {} THEN earlierRuns
          ELSE Append(earlierRuns, [pending |-> Cardinality(Pending(questionPromises)),
                                    completedCount |-> completedCount])
    /\ article' = a
    /\ emitted' = <<Progress("Analyzing Article & Generating Title...", 0, Scaled(0))>>
    /\ pc' = "awaitMetadata"
    /\ metadata' = NoValue
    /\ questionPromises' = [i \in Indices |-> "unissued"]
    /\ resolvedValues' = [i \in Indices |-> NoValue]
    /\ completedCount' = 0
    /\ generatedQuiz' = NoValue
    /\ thrown' = NoValue
    /\ requests' = [metadata |-> 1, questions |-> [i \in Indices |-> 0]]

\* handleGenerateQuiz up to the await, with the call of generateQuiz: the
\* first emission of generateQuiz replaces 'Initializing...' in the same turn.
HandleGenerateQuizCalling ==
    /\ appState = "input"
    /\ IF Trim(appArticle) = "" \/ currentUserId = NoUser
       THEN UNCHANGED <<appState, error, quiz, score, currentQuizContext,
                        generationProgress, genVars, runVars>>
       ELSE /\ InFlight <= MaxStale
            /\ \/ CallGenerateQuiz(appArticle) /\ UNCHANGED earlierRuns
               \/ CallGenerateQuizAgain(appArticle)
            /\ appState' = "loading"
            /\ error' = NoValue
            /\ quiz' = NoValue
            /\ score' = 0
            /\ currentQuizContext' = NullId
            /\ generationProgress' = emitted'[Len(emitted')]
    /\ UNCHANGED <<currentUserId, lastUser, appArticle, currentQuestionIndex, history,
                   selectedHistoryGroup, selectedAttempt, userAnswers, histVars>>

Remove(list, k) == SubSeq(list, 1, k - 1) \o SubSeq(list, k + 1, Len(list))

\* A call of an earlier invocation resolves: its then-callback counts on the
\* counter of that invocation and calls onProgress.
EarlierQuestionResolves(r) ==
    LET count == earlierRuns[r].completedCount + 1
        run == [pending |-> earlierRuns[r].pending - 1, completedCount |-> count]
    IN  /\ earlierRuns' = IF run.pending = 0 THEN Remove(earlierRuns, r)
                          ELSE [earlierRuns EXCEPT ![r] = run]
        /\ SetGenerationProgress(
              Progress("Generating Question", count + 1, QuestionPercentage(count)))
        /\ UNCHANGED genVars

\* A call of an earlier invocation fails: nothing observes it.
EarlierQuestionRejects(r) ==
    LET run == [earlierRuns[r] EXCEPT !.pending = @ - 1]
    IN  /\ earlierRuns' = IF run.pending = 0 THEN Remove(earlierRuns, r)
                          ELSE [earlierRuns EXCEPT ![r] = run]
        /\ UNCHANGED <<genVars, appVars, gradeVars, histVars>>

\* The service answers the calls of the invocation faithfully, except that
\* the metadata call and the calls of FailingCalls may fail.
NextLoading ==
    \/ \E userId \in LoginIds : HandleLogin(userId) /\ UNCHANGED <<genVars, runVars>>
    \/ \E text \in ArticleTexts : SetArticle(text) /\ UNCHANGED <<genVars, runVars>>
    \/ HandleGenerateQuizCalling
    \/ \E m \in MetadataResponses :
          MetadataResolves(m) /\ AwaitGenerateQuiz /\ UNCHANGED runVars
    \/ \E message \in LiveErrorMessages :
          MetadataRejects(message) /\ AwaitGenerateQuiz /\ UNCHANGED runVars
    \/ \E i \in Indices :
          QuestionResolves(i, FaithfulResponse(i)) /\ AwaitGenerateQuiz /\ UNCHANGED runVars
    \/ \E i \in FailingCalls : \E message \in LiveErrorMessages :
          QuestionRejects(i, message) /\ AwaitGenerateQuiz /\ UNCHANGED runVars
    \/ \E r \in DOMAIN earlierRuns : EarlierQuestionResolves(r)
    \/ \E r \in DOMAIN earlierRuns : EarlierQuestionRejects(r)
    \/ TryAgain /\ UNCHANGED <<genVars, runVars>>

SpecLoading == InitApp /\ [][NextLoading]_vars

(***************************************************************************)
(* Properties of the loading phase                                         *)
(***************************************************************************)
\* C29: generationProgress is null whenever the application is not in the
\* loading state: once a generation has settled, with a quiz or an error, no
\* later event makes it non-null until the next generation is started.
C29_ProgressNullUnlessLoading ==
    appState # "loading" => generationProgress = NoValue

\* C30: across successive generations (a failed one, Try Again, a new one)
\* the progress shown while loading is the latest emission of the invocation
\* being awaited, never one of an earlier invocation, and the percentage
\* shown during one loading phase never decreases.
C30_ProgressOfCurrentRun ==
    /\ [](appState = "loading" => generationProgress = emitted[Len(emitted)])
    /\ [][(appState = "loading" /\ appState' = "loading")
            => generationProgress'.percentage >= generationProgress.percentage]_vars

\* With the requests counted: whenever a request has been sent to the
\* service, generateQuiz was called with a non-blank article by a user.
NoRequestForBlankArticle ==
    requests.metadata > 0 => (Trim(article) # "" /\ currentUserId # NoUser)

(***************************************************************************)
(* QuizScreen: answering, paging and reviewing one quiz                    *)
(***************************************************************************)
\* currentSelection.sort((a, b) => a - b): ascending, stable
SmallerFirst(list, j, k) ==
    IF j < k THEN ~(list[j] - list[k] > 0) ELSE list[k] - list[j] > 0

SortAscending(list) ==
    [p \in DOMAIN list |->
        list[CHOOSE k \in DOMAIN list :
                1 + Cardinality({j \in DOMAIN list \ {k} : SmallerFirst(list, j, k)}) = p]]

\* currentSelection.indexOf(choiceIndex), 1-based; 0 stands for -1
IndexOf(list, x) ==
    IF \E k \in DOMAIN list : list[k] = x
    THEN CHOOSE k \in DOMAIN list : list[k] = x /\ \A j \in 1..(k - 1) : list[j] # x
    ELSE 0

\* currentSelection.splice(choicePos, 1)
Splice(list, pos) == SubSeq(list, 1, pos - 1) \o SubSeq(list, pos + 1, Len(list))

\* A variant of the Prose Summary branch without the limit of three.
ToggledSelectionUnlimited(slot, choiceIndex) ==
    LET currentSelection == IF slot = Null THEN <<>> ELSE slot
        choicePos == IndexOf(currentSelection, choiceIndex)
    IN  SortAscending(IF choicePos > 0 THEN Splice(currentSelection, choicePos)
                      ELSE Append(currentSelection, choiceIndex))

\* The Prose Summary branch: a chosen index is removed, a new one is pushed
\* while fewer than three are chosen, and the selection is sorted.
ToggledSelection(slot, choiceIndex) ==
    LET currentSelection == IF slot = Null THEN <<>> ELSE slot
        choicePos == IndexOf(currentSelection, choiceIndex)
    IN  SortAscending(IF choicePos > 0 THEN Splice(currentSelection, choicePos)
                      ELSE IF Len(currentSelection) < 3
                           THEN Append(currentSelection, choiceIndex)
                           ELSE currentSelection)

\* newAnswers after handleAnswerSelect(choiceIndex) on the question shown
SelectedAnswers(answers, question, index, choiceIndex) ==
    [answers EXCEPT ![index + 1] =
        IF question.questionType = ProseSummary
        THEN ToggledSelection(@, choiceIndex)
        ELSE <<choiceIndex>>]

\* A variant of handleAnswerSelect without the review-mode return.
HandleAnswerSelectInReview(choiceIndex) ==
    /\ appState \in {"quiz", "review"}
    /\ quiz # NoValue
    /\ userAnswers' = SelectedAnswers(userAnswers, quiz.questions[currentQuestionIndex + 1],
                                      currentQuestionIndex, choiceIndex)
    /\ score' = AppScore(quiz, userAnswers')
    /\ UNCHANGED <<quiz, appVars, histVars>>

HandleAnswerSelect(choiceIndex) ==
    /\ appState \in {"quiz", "review"}
    /\ quiz # NoValue
    /\ IF appState = "review"
       THEN UNCHANGED <<userAnswers, score>>
       ELSE /\ userAnswers' = SelectedAnswers(userAnswers,
                                              quiz.questions[currentQuestionIndex + 1],
                                              currentQuestionIndex, choiceIndex)
            /\ score' = AppScore(quiz, userAnswers')
    /\ UNCHANGED <<quiz, appVars, histVars>>

\* The markers [A]..[D] of renderInsertTextParagraph and the indices they pass
MarkerIndices == {0, 1, 2, 3}

\* What the screen lets the user click: for an Insert Text question the four
\* markers of the paragraph (also in review mode, where the handler returns
\* at once), for every other type one button per choice, disabled in review.
ClickableChoices(state, question) ==
    IF question.questionType = InsertText THEN MarkerIndices
    ELSE IF state = "review" THEN {}
    ELSE ChoiceIndices(question)

\* The choices of the Insert Text question: one per marker, or fewer (neither
\* the prompt nor the schema fixes their number).
InsertTextChoices ==
    {ChoicesOf(<<FALSE, FALSE, TRUE, FALSE>>), ChoicesOf(<<FALSE, TRUE, FALSE>>)}

\* The quizzes taken: what generateQuiz assembles, with either list of
\* choices for the Insert Text question.
ScreenQuizzes ==
    {[generated EXCEPT !.questions[9].choices = choices] :
        generated \in GeneratedQuizzes, choices \in InsertTextChoices}

\* The questions the user answers in the sessions explored (1-based): the
\* first one, the Insert Text question and the Prose Summary question.
AnsweredQuestions == {n \in Indices : n = 1 \/ questionTypes[n] \in {InsertText, ProseSummary}}

\* The session when handleGenerateQuiz has put a freshly generated quiz on
\* screen: user u1 is logged in and nothing is stored yet.
InitQuiz ==
    /\ InitGen
    /\ appData = NoItem
    /\ clock = 1
    /\ appState = "quiz"
    /\ currentUserId = "u1"
    /\ lastUser = "u1"
    /\ error = NoValue
    /\ appArticle = "passage"
    /\ generationProgress = NoValue
    /\ currentQuestionIndex = 0
    /\ history = <<>>
    /\ currentQuizContext = NullId
    /\ selectedHistoryGroup = NoValue
    /\ selectedAttempt = NoValue
    /\ quiz \in ScreenQuizzes
    /\ userAnswers = NullAnswers(quiz)
    /\ score = AppScore(quiz, userAnswers)

NextQuiz ==
    \/ /\ appState \in {"quiz", "review"}
       /\ quiz # NoValue
       /\ currentQuestionIndex + 1 \in AnsweredQuestions
       /\ \E choiceIndex \in ClickableChoices(appState, quiz.questions[currentQuestionIndex + 1]) :
             HandleAnswerSelect(choiceIndex)
       /\ UNCHANGED <<genVars, runVars>>
    \/ HandleNext /\ UNCHANGED <<genVars, runVars>>
    \/ HandlePrev /\ UNCHANGED <<genVars, runVars>>
    \/ \E state \in {"review", "analysis", "results"} : ShowScreen(state) /\ UNCHANGED <<genVars, runVars>>
    \/ HandleRestart /\ UNCHANGED <<genVars, runVars>>
    \/ \E k \in DOMAIN history : HandleReviewFromHistory(k) /\ UNCHANGED <<genVars, runVars>>
    \/ \E j \in 1..MaxSessionAttempts : HandleSelectAttemptForReview(j) /\ UNCHANGED <<genVars, runVars>>

SpecQuiz == InitQuiz /\ [][NextQuiz]_vars

(***************************************************************************)
(* Properties of the quiz screen                                           *)
(***************************************************************************)
\* A slot is null or a list of distinct indices out of valid; for a Prose
\* Summary question the list is ascending with at most three entries, for
\* every other type it has exactly one entry.
SlotWellFormed(question, slot, valid) ==
    \/ slot = Null
    \/ /\ Distinct(slot)
       /\ SetOf(slot) \subseteq valid
       /\ IF question.questionType = ProseSummary
          THEN /\ Len(slot) <= 3
               /\ \A k \in 1..(Len(slot) - 1) : slot[k] < slot[k + 1]
          ELSE Len(slot) = 1

\* What handleAnswerSelect(c) in quiz mode does to the slot of the question
\* shown, and that it leaves the other slots alone.
SelectionEffect(c) ==
    LET n == currentQuestionIndex + 1
        old == IF userAnswers[n] = Null THEN <<>> ELSE userAnswers[n]
        new == userAnswers'[n]
    IN  /\ \A m \in DOMAIN userAnswers \ {n} : userAnswers'[m] = userAnswers[m]
        /\ IF quiz.questions[n].questionType # ProseSummary THEN new = <<c>>
           ELSE IF c \in SetOf(old) THEN SetOf(new) = SetOf(old) \ {c}
           ELSE IF Len(old) = 3 THEN new = old
           ELSE SetOf(new) = SetOf(old) \cup {c}

SelectionsTakeEffect ==
    (appState = "quiz" /\ quiz # NoValue) =>
        \A c \in ClickableChoices(appState, quiz.questions[currentQuestionIndex + 1]) :
            HandleAnswerSelect(c) => SelectionEffect(c)

\* The slots are well formed over the indices the screen offers (the four
\* marker positions for an Insert Text question).
AnswerSlotsOfOfferedIndices ==
    /\ [](quiz # NoValue =>
            \A n \in DOMAIN userAnswers :
                SlotWellFormed(quiz.questions[n], userAnswers[n],
                               ClickableChoices("quiz", quiz.questions[n])))
    /\ [][SelectionsTakeEffect]_vars

\* C35: after any sequence of answer selections each slot is null or a list
\* of distinct valid choice indices of its question; for a Prose Summary
\* question the list is ascending and has at most 3 entries (a 4th selection
\* is a no-op, selecting a chosen index removes it), for every other type it
\* has exactly one entry, the choice selected last.
C35_AnswerSlotsWellFormed ==
    /\ [](quiz # NoValue =>
            \A n \in DOMAIN userAnswers :
                SlotWellFormed(quiz.questions[n], userAnswers[n],
                               ChoiceIndices(quiz.questions[n])))
    /\ [][SelectionsTakeEffect]_vars

\* C36: reviewing never writes. In review mode a click on a choice leaves
\* userAnswers unchanged, Next on the last question leads to the results
\* screen, and no step taken from the results, review, analysis or attempt
\* selection screen changes the storage (groups, attempts, scores).
C36_ReviewNeverWrites ==
    /\ [][(appState = "review" /\ quiz # NoValue) =>
            \A c \in ClickableChoices(appState, quiz.questions[currentQuestionIndex + 1]) :
                HandleAnswerSelect(c) => (userAnswers' = userAnswers /\ score' = score)]_vars
    /\ [][(/\ appState = "review"
           /\ quiz # NoValue
           /\ currentQuestionIndex = Len(quiz.questions) - 1
           /\ HandleNext) => (appState' = "results" /\ appData' = appData)]_vars
    /\ [][(appState \in {"results", "review", "analysis", "select_attempt"})
            => (appData' = appData /\ clock' = clock)]_vars

\* An attempt picked from the history is under review at the Insert Text
\* question, whose markers can still be clicked; one attempt is stored.
C36_Witness ==
    /\ appState = "review"
    /\ selectedAttempt # NoValue
    /\ quiz # NoValue
    /\ quiz.questions[currentQuestionIndex + 1].questionType = InsertText
    /\ userAnswers[currentQuestionIndex + 1] = <<2>>
    /\ AttemptsIn(appData) = 1

====
